---- MODULE Spec2Model ----
(***************************************************************************)
(* megira: Notion-driven scheduling and dispatch.                          *)
(*                                                                         *)
(* Part I   the slot allocator (auto-scheduler.ts: getAvailableSlots).     *)
(* Part II  the content store and the passes that work on it               *)
(*          (autoScheduleReadyContent, processScheduledPosts, the          *)
(*          /reschedule handler).                                          *)
(*                                                                         *)
(* Instants are whole minutes since 00:00 UTC of day 0.  Every instant the *)
(* allocator produces has seconds and milliseconds set to 0 (setHours(h,   *)
(* m, 0, 0)), and the 30 minute collision window is a whole number of      *)
(* minutes, so minutes are the resolution at which the code decides.       *)
(***************************************************************************)
EXTENDS Integers, Sequences, FiniteSets, TLC

(***************************************************************************)
(* Bounds of the model.                                                    *)
(***************************************************************************)
\* Math.random() is drawn from k / RandomScale for the k in RandomSamples.
RandomScale == 1000
\* The largest lookahead (daysAhead) the allocator is called with.
MaxDaysAhead == 2
\* The number of calendar days the sampled current instants spread over.
NowDays == 2

\* Content items in the store.
NumItems == 2
\* Schedule entries ever created in one behaviour.
MaxEntries == 3
\* Passes that may run at the same time (the cron trigger runs three).
NumPasses == 3
\* Triggers that arrive in one behaviour.
MaxStarts == 2
\* Triggers that arrive while one pass runs at a time.
SoloStarts == 3
\* Store requests that fail in one behaviour.
MaxFaults == 1
\* Store requests that may fail while one pass runs at a time.
SoloFaults == 2
\* Times the clock advances in one behaviour.
MaxTicks == 1
\* The lookahead of the passes' slot allocation.  The code's default is 14
\* days (daysAhead = 14); the passes of the model look LookaheadDays ahead.
LookaheadDays == 1

\* Cron triggers that arrive in one behaviour of the cron handler.
MaxCrons == 1
\* Calls of the X publisher that may overlap.
NumXCalls == 2
\* Token refreshes the X API grants in one behaviour.
MaxRefreshes == 2

MinutesPerDay == 24 * 60

(***************************************************************************)
(* Part I: the slot allocator.                                             *)
(***************************************************************************)

\* const OPTIMAL_SLOTS = [{8,3},{12,35},{15,43},{17,30}]
OPTIMAL_SLOTS ==
    << [hour |-> 8,  minute |-> 3],
       [hour |-> 12, minute |-> 35],
       [hour |-> 15, minute |-> 43],
       [hour |-> 17, minute |-> 30] >>

\* The values Math.random() takes in the model: 0 and the largest value
\* below 1, as numerators over RandomScale.
RandomSamples == {0, RandomScale - 1}

\* A bug a reader could make: Math.round instead of Math.floor (0 to 13).
getRandomMinuteOffsetRounded(r) == (2 * r * 13 + RandomScale) \div (2 * RandomScale)

\* Math.floor(Math.random() * 13), with Math.random() = r / RandomScale.
getRandomMinuteOffset(r) == (r * 13) \div RandomScale

\* new Date(now.toLocaleString('en-US', {timeZone})): the wall clock of `now`
\* in the configured zone (offset tz), printed to the second and parsed back
\* as a wall clock of the runtime's own zone (offset sys).  At the minute
\* resolution the printing loses nothing.
localNowOf(now, tz, sys) == (now + tz) - sys

\* getDate()/setDate()/setHours() work on the runtime's wall clock.
wallClock(instant, sys) == instant + sys

\* slotDate: setDate(localNow.getDate() + day); setHours(hour, minute + off, 0, 0)
\* and utcSlot = new Date(slotDate.getTime()) (no conversion).
utcSlotOf(now, tz, sys, day, slot, off) ==
    LET localNow == localNowOf(now, tz, sys)
        date     == wallClock(localNow, sys) \div MinutesPerDay
        wall     == (date + day) * MinutesPerDay + slot.hour * 60 + slot.minute + off
    IN  wall - sys

Abs(x) == IF x < 0 THEN -x ELSE x

\* A bug a reader could make: the window tested one-sided (taken - slot).
isTakenOneSided(takenTimes, utcSlot) ==
    \E taken \in takenTimes : taken - utcSlot < 30 /\ taken - utcSlot >= 0

\* takenTimes.some(taken => Math.abs(taken - utcSlot) < 30 * 60 * 1000)
isTaken(takenTimes, utcSlot) ==
    \E taken \in takenTimes : Abs(taken - utcSlot) < 30

\* A bug a reader could make: `<` for `<=` in the past test.
isPastStrict(utcSlot, now) == utcSlot < now

\* if (utcSlot <= now) continue
isPast(utcSlot, now) == utcSlot <= now

\* A bug a reader could make: the comparator turned round (b - a).
compareSlotsReversed(a, b) == b - a

\* The comparator of the final sort: (a, b) => a.getTime() - b.getTime().
compareSlots(a, b) == a - b

\* Array.prototype.sort(compare), a stable sort: the element at position k
\* goes behind the elements that compare lower and behind the equal ones
\* that stood before it.
sortSlots(s) ==
    [ i \in 1 .. Len(s) |->
        s[CHOOSE k \in 1 .. Len(s) :
            Cardinality({ j \in 1 .. Len(s) :
                            \/ compareSlots(s[j], s[k]) < 0
                            \/ compareSlots(s[j], s[k]) = 0 /\ j < k }) = i - 1] ]

\* The loop positions of getAvailableSlots: day 0..daysAhead-1, entry 1..4.
SlotPositions(daysAhead) == (0 .. daysAhead - 1) \X (1 .. Len(OPTIMAL_SLOTS))

\* The k-th (from 0) position of the two nested loops.
positionAt(k) == << k \div Len(OPTIMAL_SLOTS), (k % Len(OPTIMAL_SLOTS)) + 1 >>

\* The body of the loops run for positions k .. end, appending to `slots`.
\* rnd[<<day, i>>] is the value Math.random() returned at that position.
RECURSIVE collectSlots(_, _, _, _, _, _, _, _)
collectSlots(now, tz, sys, takenTimes, daysAhead, rnd, k, slots) ==
    IF k >= daysAhead * Len(OPTIMAL_SLOTS) THEN slots
    ELSE
      LET pos     == positionAt(k)
          off     == getRandomMinuteOffset(rnd[pos])
          utcSlot == utcSlotOf(now, tz, sys, pos[1], OPTIMAL_SLOTS[pos[2]], off)
          keep    == ~isPast(utcSlot, now) /\ ~isTaken(takenTimes, utcSlot)
      IN  collectSlots(now, tz, sys, takenTimes, daysAhead, rnd, k + 1,
                       IF keep THEN Append(slots, utcSlot) ELSE slots)

\* function getAvailableSlots(timezone, takenTimes, daysAhead = 14): Date[]
getAvailableSlots(now, tz, sys, takenTimes, daysAhead, rnd) ==
    sortSlots(collectSlots(now, tz, sys, takenTimes, daysAhead, rnd, 0, << >>))

----------------------------------------------------------------------------
(***************************************************************************)
(* Part II: the store (two Notion databases) and the passes.               *)
(*                                                                         *)
(* A pass is one run of autoScheduleReadyContent, processScheduledPosts or *)
(* the /reschedule handler.  Each `await` of a store request or of an      *)
(* adapter is one step of the pass; the synchronous code up to the next    *)
(* await belongs to the same step.  Passes interleave at the awaits.       *)
(*                                                                         *)
(* A store request fails by answering with a status that is not ok.        *)
(* The attributes of a content item other than its status, and the         *)
(* attributes of a schedule entry other than its status, URLs and error,   *)
(* are written by no operation, so the arrays a pass holds carry ids and   *)
(* the attributes are read where the code reads its snapshot.              *)
(***************************************************************************)
\* The state of one call of the allocator on sampled inputs (Part III).
VARIABLES
    callNow,        \* `now` read at the start of the call
    callTimezone,   \* the UTC offset of the `timezone` argument
    callRuntime,    \* the UTC offset of the zone the runtime itself runs in
    callTaken,      \* the takenTimes argument
    callDays,       \* the daysAhead argument
    callState,      \* "ready" before the call, "returned" after it
    callOffsets,    \* what getRandomMinuteOffset returned at each position
    returned        \* the returned array

slotVars == << callNow, callTimezone, callRuntime, callTaken, callDays,
               callState, callOffsets, returned >>

VARIABLES
    clock,          \* new Date(): the current instant
    content,        \* Content database: item id -> page properties
    schedule,       \* Schedule database: entry id -> page properties
    pass,           \* pass id -> the locals of the running operation
    faults,         \* store requests that may still fail
    startsLeft,     \* triggers that may still arrive
    active,         \* the passes that may run
    everPublishing  \* entries to which status Publishing was ever written

storeVars == << clock, content, schedule, pass, faults, startsLeft, active,
                everPublishing >>

\* The X publisher (Part III).
VARIABLES
    kvAccessToken,  \* KV key x_access_token: a token, or 0 for no value
    kvRefreshToken, \* KV key x_refresh_token: a token, or 0 for no value
    issued,         \* the last token pair the X API has issued
    xcall           \* call id -> the locals of a postToX / deleteFromX call

xVars == << kvAccessToken, kvRefreshToken, issued, xcall >>

\* What an action of the store or of the allocator leaves alone besides its
\* own variables.
others == << slotVars, xVars >>

Items == 1 .. NumItems
Passes == 1 .. NumPasses
Platforms == {"X", "LinkedIn"}

\* The bindings: TIMEZONE (Asia/Jerusalem, UTC+2) and the zone the Worker
\* itself runs in (UTC).
Env == [TIMEZONE |-> 120, runtime |-> 0]

\* The instants the clock takes: 05:00 UTC of day 0, then steps of 700
\* minutes (16:40 UTC: one template time of the day is still ahead).
ClockInstants == { 300 + 700 * k : k \in 0 .. MaxTicks }

\* createScheduleEntry: the page it creates.
newEntry(contentId, scheduledFor, platforms, includeQuote) ==
    [ contentId |-> contentId, scheduledFor |-> scheduledFor,
      platforms |-> platforms, status |-> "Scheduled",
      includeQuote |-> includeQuote,
      xUrl |-> FALSE, linkedInUrl |-> FALSE, error |-> "", deleted |-> FALSE ]

\* A content page.  `sweeps` is history: the times Status Processing was
\* written to the page.
page(status, immediateSchedule, platforms, includeQuote, matchedQuoteId) ==
    [status |-> status, immediateSchedule |-> immediateSchedule,
     platforms |-> platforms, includeQuote |-> includeQuote,
     matchedQuoteId |-> matchedQuoteId, processingLog |-> "", sweeps |-> 0]

\* What the two databases hold when the first trigger arrives: Ready
\* content not yet scheduled, or content that an earlier pass has scheduled
\* and whose entry is due.  Items beyond those listed are still Drafted.
StoreSamples ==
    { [content  |-> << page("Ready", TRUE, {}, FALSE, FALSE),
                       page("Ready", FALSE, {"X", "LinkedIn"}, TRUE, FALSE) >>,
       schedule |-> << >>],
      [content  |-> << page("Scheduled", TRUE, {}, FALSE, FALSE),
                       page("Ready", FALSE, {"X"}, TRUE, TRUE) >>,
       schedule |-> << newEntry(1, 300, {"X", "LinkedIn"}, FALSE) >>],
      [content  |-> << page("Scheduled", FALSE, {"X"}, TRUE, FALSE),
                       page("Drafted", FALSE, {}, TRUE, FALSE) >>,
       schedule |-> << newEntry(1, 300, {"X"}, TRUE) >>] }

Err(kind, id) == [kind |-> kind, id |-> id]

\* The locals of a pass that runs nothing.
IdlePass ==
    [ op |-> "idle", pc |-> "idle",
      \* autoScheduleReadyContent
      readyData |-> << >>, immediateContent |-> << >>, regularContent |-> << >>,
      availableSlots |-> << >>, phase |-> "none", i |-> 0, scheduled |-> 0,
      \* processScheduledPosts
      scheduledPosts |-> << >>, postUrls |-> {}, processed |-> 0,
      \* processScheduledPosts, history of the entry in hand: the adapters
      \* invoked, on-demand enrichment calls, whether this pass wrote
      \* Publishing, whether the dispatch was reached, whether a store write
      \* failed
      calls |-> << >>, enrichCalls |-> 0, marked |-> FALSE,
      dispatched |-> FALSE, writeFailed |-> FALSE,
      \* processScheduledPosts, history of the pass: one record per entry
      \* dealt with, and the entries already marked Publishing at its query
      outcomes |-> << >>, staleAtQuery |-> {},
      \* processScheduledPosts, what its query met: the entries that were
      \* Scheduled and due, those among them whose content could not be
      \* resolved, and the ids of the list it returned
      dueAtQuery |-> {}, unresolved |-> {}, listed |-> << >>,
      \* autoScheduleReadyContent, history of the pass: the items its query
      \* returned, the Ready items no Scheduled or Publishing entry referenced
      \* at the query, the number of slots it got, one record per call of
      \* createScheduleEntry
      input |-> << >>, eligible |-> {}, slotCount |-> 0, made |-> << >>,
      \* processDraftedContent: the list, and context.results of the item in hand
      draftedContent |-> << >>, results |-> "none",
      \* processDraftedContent, history of the pass: the items its query
      \* returned, the status the item in hand had in the store when its
      \* plugins ran, one record per item dealt with
      drafted |-> << >>, statusAtPlugins |-> "none", sweep |-> << >>,
      \* /reschedule
      pending |-> << >>, outerErrors |-> << >>, cleared |-> 0,
      \* /reschedule, history of the pass: the entries that were Scheduled or
      \* Publishing at its query, one record per entry of the loop, the calls
      \* of autoScheduleReadyContent
      pendingAtQuery |-> {}, resets |-> << >>, schedulerRuns |-> 0,
      \* what ran before the pass: the operation that had returned when the
      \* trigger arrived, and the failures that one met
      previous |-> "none", previousFailures |-> 0,
      \* all: the store requests of the pass that failed
      failed |-> 0,
      \* all
      errors |-> << >> ]

\* The pass after a store request: a failed one is counted.
noteFailure(ok, ps) == IF ok THEN ps ELSE [ps EXCEPT !.failed = @ + 1]

\* The outcomes of a store request: it may fail while faults are left.
StoreOutcomes == IF faults > 0 THEN {TRUE, FALSE} ELSE {TRUE}

Spend(ok) == IF ok THEN faults ELSE faults - 1

Min(a, b) == IF a < b THEN a ELSE b

\* The ids of a set in ascending order (the order the store lists pages in).
RECURSIVE ascending(_)
ascending(S) ==
    IF S = {} THEN << >>
    ELSE LET m == CHOOSE x \in S : \A y \in S : x <= y
         IN  << m >> \o ascending(S \ {m})

EntryIds == 1 .. Len(schedule)

\* A page that was deleted is returned by no query.
Listed(e) == ~schedule[e].deleted

Idle(p) == pass[p].pc \in {"idle", "returned", "threw"}

\* A trigger is served by the first pass that runs nothing (the passes have
\* no identity of their own).
Free(p) == /\ p \in active
           /\ Idle(p)
           /\ \A q \in active : q < p => ~Idle(q)

\* The store before any pass, drawn from a set of samples.
InitStoreOf(samples) ==
    /\ clock = 300
    /\ \E st \in samples :
         /\ content = [c \in Items |->
                          IF c <= Len(st.content) THEN st.content[c]
                          ELSE page("Drafted", FALSE, {}, FALSE, FALSE)]
         /\ schedule = st.schedule
    /\ pass = [p \in Passes |-> IdlePass]
    /\ everPublishing = {}

InitStore == InitStoreOf(StoreSamples)

\* Further contents for the runs of one pass at a time: two due entries
\* whose instants are in the reverse order of their creation, two Ready
\* items for slot scheduling, and a due entry that asks for a quote which
\* the enrichment sweep has matched already.
SoloSamples ==
    { [content  |-> << page("Scheduled", FALSE, {"X"}, FALSE, FALSE),
                       page("Scheduled", FALSE, {"LinkedIn"}, FALSE, FALSE) >>,
       schedule |-> << newEntry(1, 300, {"X"}, FALSE),
                       newEntry(2, 280, {"LinkedIn"}, FALSE) >>],
      [content  |-> << page("Ready", FALSE, {"X"}, FALSE, FALSE),
                       page("Ready", FALSE, {}, FALSE, FALSE) >>,
       schedule |-> << >>],
      [content  |-> << page("Scheduled", FALSE, {"LinkedIn"}, TRUE, TRUE),
                       page("Drafted", FALSE, {}, FALSE, FALSE) >>,
       schedule |-> << newEntry(1, 300, {"LinkedIn"}, TRUE) >>],
      \* a due entry whose Platform select was emptied by hand
      [content  |-> << page("Scheduled", FALSE, {}, FALSE, FALSE),
                       page("Drafted", FALSE, {}, FALSE, FALSE) >>,
       schedule |-> << newEntry(1, 300, {}, FALSE) >>] }

\* The store while only the allocator is exercised.
StoreAtRest ==
    /\ clock = 300
    /\ content = [c \in Items |-> page("Drafted", FALSE, {}, FALSE, FALSE)]
    /\ schedule = << >>
    /\ pass = [p \in Passes |-> IdlePass]
    /\ faults = 0
    /\ startsLeft = 0
    /\ active = {}
    /\ everPublishing = {}

\* The allocator's call record while only the passes are exercised.
SlotsAtRest ==
    /\ callNow = 0 /\ callTimezone = 0 /\ callRuntime = 0
    /\ callTaken = {} /\ callDays = 0 /\ callState = "unused"
    /\ callOffsets = << >> /\ returned = << >>

(***************************************************************************)
(* autoScheduleReadyContent                                                *)
(***************************************************************************)

\* return { scheduled, errors }; under /reschedule the handler then answers
\* with { cleared, scheduled, errors: [...errors, ...scheduleResult.errors] }.
scheduleReturn(ps) ==
    IF ps.op = "reschedule"
    THEN [IdlePass EXCEPT !.op = ps.op, !.pc = "returned",
                          !.cleared = ps.cleared, !.scheduled = ps.scheduled,
                          !.errors = ps.outerErrors \o ps.errors,
                          !.input = ps.input, !.eligible = ps.eligible,
                          !.slotCount = ps.slotCount, !.made = ps.made,
                          !.availableSlots = ps.availableSlots,
                          !.pendingAtQuery = ps.pendingAtQuery,
                          !.resets = ps.resets,
                          !.schedulerRuns = ps.schedulerRuns,
                          !.previous = ps.previous,
                          !.previousFailures = ps.previousFailures,
                          !.failed = ps.failed]
    ELSE [IdlePass EXCEPT !.op = ps.op, !.pc = "returned",
                          !.scheduled = ps.scheduled, !.errors = ps.errors,
                          !.input = ps.input, !.eligible = ps.eligible,
                          !.slotCount = ps.slotCount, !.made = ps.made,
                          !.availableSlots = ps.availableSlots,
                          !.failed = ps.failed]

\* A bug a reader could make: items beyond the slots dropped without a word.
regularFromSilent(ps, i) ==
    IF i > Len(ps.regularContent) \/ i > Len(ps.availableSlots)
    THEN scheduleReturn(ps)
    ELSE [ps EXCEPT !.pc = "sr_create", !.phase = "regular", !.i = i]

\* The loop over regularContent from position i on, up to the next await:
\* `if (i >= availableSlots.length) { errors.push(...); continue; }`.
RECURSIVE regularFrom(_, _)
regularFrom(ps, i) ==
    IF i > Len(ps.regularContent) THEN scheduleReturn(ps)
    ELSE IF i > Len(ps.availableSlots)
    THEN regularFrom([ps EXCEPT !.errors =
                         Append(@, Err("no-more-slots", ps.regularContent[i]))],
                     i + 1)
    ELSE [ps EXCEPT !.pc = "sr_create", !.phase = "regular", !.i = i]

\* A bug a reader could make: the regular queue forgotten, the pass returns
\* after the immediate items.
immediateFromOnly(ps, i) ==
    IF i <= Len(ps.immediateContent)
    THEN [ps EXCEPT !.pc = "sr_create", !.phase = "immediate", !.i = i]
    ELSE scheduleReturn(ps)

\* The loop over immediateContent from position i on, then
\* `if (regularContent.length > 0)`.
immediateFrom(ps, i) ==
    IF i <= Len(ps.immediateContent)
    THEN [ps EXCEPT !.pc = "sr_create", !.phase = "immediate", !.i = i]
    ELSE IF Len(ps.regularContent) > 0
    THEN [ps EXCEPT !.pc = "sr_times"]
    ELSE scheduleReturn(ps)

\* The next iteration of the loop the pass is in.
nextItem(ps) ==
    IF ps.phase = "immediate" THEN immediateFrom(ps, ps.i + 1)
    ELSE regularFrom(ps, ps.i + 1)

\* The item of the current iteration.
currentItem(ps) ==
    IF ps.phase = "immediate" THEN ps.immediateContent[ps.i]
    ELSE ps.regularContent[ps.i]

\* A bug a reader could make: the platform set passed on as it is.
determinePlatformsAsGiven(platforms) == platforms

\* function determinePlatforms(platforms?)
determinePlatforms(platforms) ==
    IF platforms = {} THEN {"X", "LinkedIn"} ELSE platforms

\* A bug a reader could make: only entries in status Scheduled count as an
\* existing schedule.
activeStatusesScheduledOnly == {"Scheduled"}

\* The statuses of the entries that make an item "already scheduled".
activeStatuses == {"Scheduled", "Publishing"}

\* getReadyContentWithoutSchedule, second query: the content ids of the
\* entries in status Scheduled or Publishing.
scheduledContentIds ==
    { schedule[e].contentId :
        e \in { x \in EntryIds : /\ Listed(x)
                                 /\ schedule[x].status \in activeStatuses
                                 /\ schedule[x].contentId # 0 } }

\* getScheduledTimes: the instants of the entries in status Scheduled.
scheduledTimes ==
    { schedule[e].scheduledFor :
        e \in { x \in EntryIds : Listed(x) /\ schedule[x].status = "Scheduled" } }

\* The entries in status Scheduled or Publishing that reference item c.
nonTerminalEntriesOf(c) ==
    { e \in EntryIds : /\ Listed(e)
                       /\ schedule[e].contentId = c
                       /\ schedule[e].status \in {"Scheduled", "Publishing"} }

\* The entries in status Scheduled or Publishing.
nonTerminalEntries ==
    { e \in EntryIds : /\ Listed(e)
                       /\ schedule[e].status \in {"Scheduled", "Publishing"} }

\* The entries that are in status Scheduled with a scheduled instant that
\* has come.
scheduledAndDue ==
    { e \in EntryIds : /\ Listed(e)
                       /\ schedule[e].status = "Scheduled"
                       /\ schedule[e].scheduledFor <= clock }

\* The elements of a sequence.
Range(s) == { s[k] : k \in 1 .. Len(s) }

\* A bug a reader could make: every item at the first available slot.
scheduledForFirstSlot(ps) ==
    IF ps.phase = "immediate" THEN clock ELSE ps.availableSlots[1]

\* The instant of the entry to create: `const now = new Date()` for
\* immediate content, `const slot = availableSlots[i]` for regular content.
scheduledForOf(ps) ==
    IF ps.phase = "immediate" THEN clock ELSE ps.availableSlots[ps.i]

\* A bug a reader could make: the first failure ends the pass.
itemFailedEndsPass(ps, c) ==
    scheduleReturn([ps EXCEPT !.errors = Append(@, Err("schedule-failed", c))])

\* catch (error) { errors.push(`Failed to schedule ...`) }, then the next
\* iteration.
itemFailed(ps, c) ==
    nextItem([ps EXCEPT !.errors = Append(@, Err("schedule-failed", c))])

StartSchedule(p) ==
    /\ Free(p) /\ startsLeft > 0
    /\ startsLeft' = startsLeft - 1
    /\ pass' = [pass EXCEPT ![p] =
                  [IdlePass EXCEPT !.op = "schedule", !.pc = "sr_ready"]]
    /\ UNCHANGED others
    /\ UNCHANGED << clock, content, schedule, faults, active, everPublishing >>

\* getReadyContentWithoutSchedule, first query: the pages in status Ready.
\* A failed query throws; the outer catch records it and the pass returns.
SR_QueryReady(p) ==
    /\ pass[p].pc = "sr_ready"
    /\ \E ok \in StoreOutcomes :
         /\ faults' = Spend(ok)
         /\ pass' = [pass EXCEPT ![p] = noteFailure(ok,
               IF ok
               THEN [@ EXCEPT !.pc = "sr_sched",
                       !.readyData = ascending({ c \in Items :
                                         content[c].status = "Ready" })]
               ELSE scheduleReturn([@ EXCEPT !.errors =
                                       Append(@, Err("auto-scheduler", 0))]))]
    /\ UNCHANGED others
    /\ UNCHANGED << clock, content, schedule, startsLeft, active, everPublishing >>

\* getReadyContentWithoutSchedule, second query and filter, then the split
\* into immediate and regular content.  A failed second query is not an
\* error: scheduledContentIds stays empty.
SR_QuerySchedule(p) ==
    /\ pass[p].pc = "sr_sched"
    /\ \E ok \in StoreOutcomes :
         /\ faults' = Spend(ok)
         /\ LET ids == IF ok THEN scheduledContentIds ELSE {}
                readyContent == SelectSeq(pass[p].readyData,
                                          LAMBDA c : c \notin ids)
            IN  pass' = [pass EXCEPT ![p] = noteFailure(ok,
                  IF Len(readyContent) = 0
                  THEN scheduleReturn([@ EXCEPT !.scheduled = 0, !.errors = << >>,
                           !.eligible = { c \in Range(pass[p].readyData) :
                                            nonTerminalEntriesOf(c) = {} }])
                  ELSE immediateFrom(
                         [@ EXCEPT
                            !.input = readyContent,
                            !.eligible = { c \in Range(pass[p].readyData) :
                                             nonTerminalEntriesOf(c) = {} },
                            !.immediateContent = SelectSeq(readyContent,
                                LAMBDA c : content[c].immediateSchedule),
                            !.regularContent = SelectSeq(readyContent,
                                LAMBDA c : ~content[c].immediateSchedule)],
                         1))]
    /\ UNCHANGED others
    /\ UNCHANGED << clock, content, schedule, startsLeft, active, everPublishing >>

\* await createScheduleEntry(...): at `now` for immediate content, at
\* availableSlots[i] for regular content.  A failure is caught per item.
SR_Create(p) ==
    /\ pass[p].pc = "sr_create"
    /\ LET ps   == pass[p]
           c    == currentItem(ps)
           when == scheduledForOf(ps)
       IN \E ok \in StoreOutcomes :
            /\ faults' = Spend(ok)
            /\ ok => Len(schedule) < MaxEntries
            /\ schedule' =
                 IF ok
                 THEN Append(schedule,
                        newEntry(c, when, determinePlatforms(content[c].platforms),
                                 content[c].includeQuote))
                 ELSE schedule
            /\ pass' = [pass EXCEPT ![p] = noteFailure(ok,
                 LET call == [item |-> c, phase |-> ps.phase, i |-> ps.i,
                              at |-> clock, advanced |-> FALSE,
                              entry |-> IF ok THEN Len(schedule) + 1 ELSE 0]
                     ps2  == [ps EXCEPT !.made = Append(@, call)]
                 IN  IF ok THEN [ps2 EXCEPT !.pc = "sr_mark"]
                     ELSE itemFailed(ps2, c))]
    /\ UNCHANGED others
    /\ UNCHANGED << clock, content, startsLeft, active, everPublishing >>

\* await markContentScheduled(content.id); scheduled++.
SR_Mark(p) ==
    /\ pass[p].pc = "sr_mark"
    /\ LET ps == pass[p]
           c  == currentItem(ps)
       IN \E ok \in StoreOutcomes :
            /\ faults' = Spend(ok)
            /\ content' = IF ok THEN [content EXCEPT ![c].status = "Scheduled"]
                          ELSE content
            /\ pass' = [pass EXCEPT ![p] = noteFailure(ok,
                 IF ok THEN nextItem([ps EXCEPT !.scheduled = @ + 1,
                                        !.made[Len(ps.made)].advanced = TRUE])
                 ELSE itemFailed(ps, c))]
    /\ UNCHANGED others
    /\ UNCHANGED << clock, schedule, startsLeft, active, everPublishing >>

\* await getScheduledTimes(...) (a failed query yields []), then
\* getAvailableSlots(env.TIMEZONE, takenTimes) and the loop up to the first
\* createScheduleEntry.  The pass reads availableSlots only at positions
\* below regularContent.length, so the model keeps that prefix.
SR_Times(p) ==
    /\ pass[p].pc = "sr_times"
    /\ \E ok \in StoreOutcomes :
       \E rnd \in [SlotPositions(LookaheadDays) -> RandomSamples] :
         /\ faults' = Spend(ok)
         /\ \E slots \in { getAvailableSlots(clock, Env.TIMEZONE, Env.runtime,
                                              IF ok THEN scheduledTimes ELSE {},
                                              LookaheadDays, rnd) } :
              LET ps    == pass[p]
                  kept  == SubSeq(slots, 1,
                                  Min(Len(slots), Len(ps.regularContent)))
                  noted == IF Len(slots) = 0
                           THEN Append(ps.errors, Err("no-slots", 0))
                           ELSE ps.errors
              IN  pass' = [pass EXCEPT ![p] = noteFailure(ok,
                    regularFrom([ps EXCEPT !.availableSlots = kept,
                                           !.slotCount = Len(slots),
                                           !.errors = noted], 1))]
    /\ UNCHANGED others
    /\ UNCHANGED << clock, content, schedule, startsLeft, active, everPublishing >>

(***************************************************************************)
(* processScheduledPosts                                                   *)
(***************************************************************************)

\* A PATCH of a page that was deleted fails; any other may fail while
\* faults are left.
UpdateOutcomes(e) == IF schedule[e].deleted THEN {FALSE} ELSE StoreOutcomes

SpendOn(e, ok) == IF ok \/ schedule[e].deleted THEN faults ELSE faults - 1

\* A bug a reader could make: the due query without the status filter.
isDueAnyStatus(e, now) ==
    /\ Listed(e)
    /\ schedule[e].status \in {"Scheduled", "Publishing"}
    /\ schedule[e].scheduledFor <= now

\* getScheduledPosts, the filter of the query: Status equals Scheduled and
\* Scheduled For on or before now.
isDue(e, now) ==
    /\ Listed(e)
    /\ schedule[e].status = "Scheduled"
    /\ schedule[e].scheduledFor <= now

\* A bug a reader could make: the pages in the order of their creation.
byCreation(S) == ascending(S)

\* sorts: Scheduled For ascending (pages with equal instants in id order).
RECURSIVE byScheduledFor(_)
byScheduledFor(S) ==
    IF S = {} THEN << >>
    ELSE LET m == CHOOSE x \in S : \A y \in S :
                     \/ schedule[x].scheduledFor < schedule[y].scheduledFor
                     \/ /\ schedule[x].scheduledFor = schedule[y].scheduledFor
                        /\ x <= y
         IN  << m >> \o byScheduledFor(S \ {m})

\* props['Platform']?.multi_select?.map(p => p.name) || ['X', 'LinkedIn']:
\* the select of a page is an array, the map of an empty array is an empty
\* array, and an empty array is truthy, so the default is not taken.
platformsOf(multiSelect) == multiSelect

\* The ScheduledPost built from a page and its linked content.
scheduledPost(e) ==
    [ id |-> e, contentId |-> schedule[e].contentId,
      platforms |-> platformsOf(schedule[e].platforms),
      includeQuote |-> schedule[e].includeQuote,
      content |-> schedule[e].contentId,
      matchedQuoteId |-> content[schedule[e].contentId].matchedQuoteId ]

\* getScheduledPosts: the due pages in order; a page without a Content
\* relation, or whose content page cannot be fetched (`unfetched`), is
\* skipped (`continue`).
getScheduledPosts(now, unfetched) ==
    LET due == byScheduledFor({ e \in EntryIds : isDue(e, now) })
    IN  [ k \in 1 .. Len(SelectSeq(due, LAMBDA e :
                          schedule[e].contentId # 0 /\ e \notin unfetched)) |->
            scheduledPost(SelectSeq(due, LAMBDA e :
                          schedule[e].contentId # 0 /\ e \notin unfetched)[k]) ]

\* The record the pass keeps of the entry it has dealt with.
outcomeOf(ps, counted, settled) ==
    [ id |-> Head(ps.scheduledPosts).id,
      contentId |-> Head(ps.scheduledPosts).contentId,
      platforms |-> Head(ps.scheduledPosts).platforms,
      postUrls |-> ps.postUrls, calls |-> ps.calls,
      enrichCalls |-> ps.enrichCalls, marked |-> ps.marked,
      dispatched |-> ps.dispatched,
      writeFailed |-> ps.writeFailed, counted |-> counted,
      settled |-> settled ]

\* return { processed, errors }
publishReturn(ps) ==
    [IdlePass EXCEPT !.op = ps.op, !.pc = "returned",
                     !.processed = ps.processed, !.errors = ps.errors,
                     !.outcomes = ps.outcomes, !.staleAtQuery = ps.staleAtQuery,
                     !.dueAtQuery = ps.dueAtQuery,
                     !.unresolved = ps.unresolved, !.listed = ps.listed,
                     !.failed = ps.failed]

\* The head of the loop `for (const scheduled of scheduledPosts)` up to the
\* first await: `if (!scheduled.content) { errors.push(...); ... }`.
publishFrom(ps) ==
    IF Len(ps.scheduledPosts) = 0 THEN publishReturn(ps)
    ELSE LET fresh == [ps EXCEPT !.postUrls = {}, !.calls = << >>,
                                 !.enrichCalls = 0, !.marked = FALSE,
                                 !.dispatched = FALSE, !.writeFailed = FALSE]
         IN IF Head(ps.scheduledPosts).content = 0
            THEN [fresh EXCEPT !.pc = "pd_nocontent",
                     !.errors = Append(@, Err("no-content",
                                              Head(ps.scheduledPosts).id))]
            ELSE [fresh EXCEPT !.pc = "pd_publishing"]

\* The entry in hand is done: the next iteration.
publishNext(ps, counted) ==
    publishFrom([ps EXCEPT !.outcomes = Append(@, outcomeOf(ps, counted, TRUE)),
                           !.scheduledPosts = Tail(@)])

\* The outer catch: errors.push(`Main process error`), then the return.
publishAbort(ps) ==
    publishReturn([ps EXCEPT
        !.errors = Append(@, Err("main", 0)),
        !.outcomes = IF Len(ps.scheduledPosts) = 0 THEN @
                     ELSE Append(@, outcomeOf([ps EXCEPT !.writeFailed = TRUE],
                                              FALSE, FALSE))])

\* The inner catch up to its await: errors.push(`Schedule id: Failed to publish`).
publishCatch(ps) ==
    [ps EXCEPT !.pc = "pd_catch",
               !.errors = Append(@, Err("publish-failed",
                                        Head(ps.scheduledPosts).id))]

\* A bug a reader could make: Published only when every platform succeeded.
afterLinkedInAll(ps) ==
    IF ps.postUrls = Head(ps.scheduledPosts).platforms
    THEN [ps EXCEPT !.pc = "pd_published"]
    ELSE [ps EXCEPT !.pc = "pd_allfailed"]

\* `if (postUrls.xUrl || postUrls.linkedInUrl)`
afterLinkedIn(ps) ==
    IF ps.postUrls # {} THEN [ps EXCEPT !.pc = "pd_published"]
    ELSE [ps EXCEPT !.pc = "pd_allfailed"]

\* A bug a reader could make: the X failure not caught on its own, so that it
\* lands in the entry's catch and LinkedIn is never tried.
afterXUncaught(ps, ok) ==
    IF ~ok THEN publishCatch(ps)
    ELSE IF "LinkedIn" \in Head(ps.scheduledPosts).platforms
    THEN [ps EXCEPT !.pc = "pd_li"]
    ELSE afterLinkedIn(ps)

\* After the X block: `if (scheduled.platforms.includes('LinkedIn'))`.
afterX(ps, ok) ==
    IF "LinkedIn" \in Head(ps.scheduledPosts).platforms
    THEN [ps EXCEPT !.pc = "pd_li"]
    ELSE afterLinkedIn(ps)

\* The dispatch: `if (scheduled.platforms.includes('X'))`.
dispatchFrom(ps) ==
    LET d == [ps EXCEPT !.dispatched = TRUE, !.postUrls = {}]
    IN  IF "X" \in Head(ps.scheduledPosts).platforms
        THEN [d EXCEPT !.pc = "pd_x"]
        ELSE afterX(d, TRUE)

\* A bug a reader could make: the quote matched again whenever one is asked
\* for.
needsEnrichmentWheneverAsked(post) == post.includeQuote

\* `if (scheduled.includeQuote)` and not `scheduled.content.matchedQuoteId`
\* (the content as getScheduledPosts fetched it).
needsEnrichment(post) ==
    post.includeQuote /\ ~post.matchedQuoteId

StartPublish(p) ==
    /\ Free(p) /\ startsLeft > 0
    /\ startsLeft' = startsLeft - 1
    /\ pass' = [pass EXCEPT ![p] =
                  [IdlePass EXCEPT !.op = "publish", !.pc = "pd_query"]]
    /\ UNCHANGED others
    /\ UNCHANGED << clock, content, schedule, faults, active, everPublishing >>

\* await getScheduledPosts(...).  A failed query throws into the outer
\* catch; a failed fetch of one content page drops that entry.
PD_Query(p) ==
    /\ pass[p].pc = "pd_query"
    /\ LET due == { e \in EntryIds : isDue(e, clock) /\ schedule[e].contentId # 0 }
       IN \E ok \in StoreOutcomes :
          \E unfetched \in IF faults > 0 /\ ok
                           THEN {{}} \cup { {e} : e \in due } ELSE {{}} :
          \E posts \in { getScheduledPosts(clock, unfetched) } :
            /\ faults' = IF ok /\ unfetched = {} THEN faults ELSE faults - 1
            /\ pass' = [pass EXCEPT ![p] = noteFailure(ok /\ unfetched = {},
                 IF ok
                 THEN publishFrom([@ EXCEPT
                        !.scheduledPosts = posts,
                        !.listed = [k \in 1 .. Len(posts) |-> posts[k].id],
                        !.dueAtQuery = scheduledAndDue,
                        !.unresolved = { e \in scheduledAndDue :
                            schedule[e].contentId = 0 \/ e \in unfetched },
                        !.staleAtQuery = everPublishing])
                 ELSE publishAbort(@))]
    /\ UNCHANGED others
    /\ UNCHANGED << clock, content, schedule, startsLeft, active, everPublishing >>

\* await markSchedulePublishing(scheduled.id): outside the inner try.
PD_MarkPublishing(p) ==
    /\ pass[p].pc = "pd_publishing"
    /\ LET ps   == pass[p]
           post == Head(ps.scheduledPosts)
       IN \E ok \in UpdateOutcomes(post.id) :
            /\ faults' = SpendOn(post.id, ok)
            /\ schedule' = IF ok
                           THEN [schedule EXCEPT ![post.id].status = "Publishing"]
                           ELSE schedule
            /\ everPublishing' = IF ok THEN everPublishing \cup {post.id}
                                 ELSE everPublishing
            /\ pass' = [pass EXCEPT ![p] = noteFailure(ok,
                 IF ~ok THEN publishAbort(ps)
                 ELSE IF needsEnrichment(post)
                 THEN [ps EXCEPT !.pc = "pd_enrich", !.marked = TRUE]
                 ELSE dispatchFrom([ps EXCEPT !.marked = TRUE]))]
    /\ UNCHANGED others
    /\ UNCHANGED << clock, content, startsLeft, active >>

\* The fallback: R2.get('quotes.json'), matchQuoteToContent, the image.  It
\* ends, or it throws into the inner catch.
PD_Enrich(p) ==
    /\ pass[p].pc = "pd_enrich"
    /\ \E done \in BOOLEAN :
         pass' = [pass EXCEPT ![p] =
            LET ps == [@ EXCEPT !.enrichCalls = @ + 1]
            IN  IF done THEN dispatchFrom(ps) ELSE publishCatch(ps)]
    /\ UNCHANGED others
    /\ UNCHANGED << clock, content, schedule, faults, startsLeft, active,
                    everPublishing >>

\* try { await postToX(...) } catch (xError) { errors.push(...) }
PD_PostX(p) ==
    /\ pass[p].pc = "pd_x"
    /\ \E ok \in BOOLEAN :
         pass' = [pass EXCEPT ![p] =
            LET ps == [@ EXCEPT !.calls = Append(@, "X")]
                id == Head(ps.scheduledPosts).id
            IN  IF ok THEN afterX([ps EXCEPT !.postUrls = @ \cup {"X"}], ok)
                ELSE afterX([ps EXCEPT !.errors = Append(@, Err("X", id))], ok)]
    /\ UNCHANGED others
    /\ UNCHANGED << clock, content, schedule, faults, startsLeft, active,
                    everPublishing >>

\* try { await postToLinkedIn(...) } catch (liError) { errors.push(...) }
PD_PostLinkedIn(p) ==
    /\ pass[p].pc = "pd_li"
    /\ \E ok \in BOOLEAN :
         pass' = [pass EXCEPT ![p] =
            LET ps == [@ EXCEPT !.calls = Append(@, "LinkedIn")]
                id == Head(ps.scheduledPosts).id
            IN  IF ok THEN afterLinkedIn([ps EXCEPT !.postUrls = @ \cup {"LinkedIn"}])
                ELSE afterLinkedIn([ps EXCEPT !.errors =
                                       Append(@, Err("LinkedIn", id))])]
    /\ UNCHANGED others
    /\ UNCHANGED << clock, content, schedule, faults, startsLeft, active,
                    everPublishing >>

\* await markSchedulePublished(scheduled.id, postUrls): Status and the URLs
\* that are set in postUrls.
\* A bug a reader could make: the publication time written to 'Scheduled
\* For' instead of 'Published At'.
publishedPageAtNow(e, urls) ==
    [schedule EXCEPT ![e].status = "Published",
                     ![e].scheduledFor = clock,
                     ![e].xUrl = @ \/ ("X" \in urls),
                     ![e].linkedInUrl = @ \/ ("LinkedIn" \in urls)]

\* markSchedulePublished: Status Published, 'Published At' (a property the
\* model does not carry) and the URL of each platform that has one.
publishedPage(e, urls) ==
    [schedule EXCEPT ![e].status = "Published",
                     ![e].xUrl = @ \/ ("X" \in urls),
                     ![e].linkedInUrl = @ \/ ("LinkedIn" \in urls)]

PD_MarkPublished(p) ==
    /\ pass[p].pc = "pd_published"
    /\ LET ps == pass[p]
           e  == Head(ps.scheduledPosts).id
       IN \E ok \in UpdateOutcomes(e) :
            /\ faults' = SpendOn(e, ok)
            /\ schedule' = IF ok THEN publishedPage(e, ps.postUrls)
                           ELSE schedule
            /\ pass' = [pass EXCEPT ![p] = noteFailure(ok,
                 IF ok THEN [ps EXCEPT !.pc = "pd_content"]
                 ELSE publishCatch([ps EXCEPT !.writeFailed = TRUE]))]
    /\ UNCHANGED others
    /\ UNCHANGED << clock, content, startsLeft, active, everPublishing >>

\* await markContentPublished(scheduled.contentId); processed++.
PD_MarkContentPublished(p) ==
    /\ pass[p].pc = "pd_content"
    /\ LET ps == pass[p]
           c  == Head(ps.scheduledPosts).contentId
       IN \E ok \in StoreOutcomes :
            /\ faults' = Spend(ok)
            /\ content' = IF ok THEN [content EXCEPT ![c].status = "Published"]
                          ELSE content
            /\ pass' = [pass EXCEPT ![p] = noteFailure(ok,
                 IF ok THEN publishNext([ps EXCEPT !.processed = @ + 1], TRUE)
                 ELSE publishCatch([ps EXCEPT !.writeFailed = TRUE]))]
    /\ UNCHANGED others
    /\ UNCHANGED << clock, schedule, startsLeft, active, everPublishing >>

\* A bug a reader could make: the Error text not written.
failedPageNoText(e, text) ==
    [schedule EXCEPT ![e].status = "Failed"]

\* markScheduleFailed: Status Failed and the Error text.
failedPage(e, text) ==
    [schedule EXCEPT ![e].status = "Failed", ![e].error = text]

\* await markScheduleFailed(scheduled.id, 'All platforms failed'), inside
\* the inner try.
PD_MarkAllFailed(p) ==
    /\ pass[p].pc = "pd_allfailed"
    /\ LET ps == pass[p]
           e  == Head(ps.scheduledPosts).id
       IN \E ok \in UpdateOutcomes(e) :
            /\ faults' = SpendOn(e, ok)
            /\ schedule' = IF ok THEN failedPage(e, "All platforms failed")
                           ELSE schedule
            /\ pass' = [pass EXCEPT ![p] = noteFailure(ok,
                 IF ok THEN publishNext(ps, FALSE)
                 ELSE publishCatch([ps EXCEPT !.writeFailed = TRUE]))]
    /\ UNCHANGED others
    /\ UNCHANGED << clock, content, startsLeft, active, everPublishing >>

\* await markScheduleFailed(...) outside the inner try: in its catch block
\* (errorMsg) and for an entry without content.  A failure here reaches the
\* outer catch and ends the pass.
PD_MarkFailed(p) ==
    /\ pass[p].pc \in {"pd_catch", "pd_nocontent"}
    /\ LET ps   == pass[p]
           e    == Head(ps.scheduledPosts).id
           text == IF ps.pc = "pd_catch" THEN "Failed to publish"
                   ELSE "No linked content found"
       IN \E ok \in UpdateOutcomes(e) :
            /\ faults' = SpendOn(e, ok)
            /\ schedule' = IF ok THEN failedPage(e, text) ELSE schedule
            /\ pass' = [pass EXCEPT ![p] = noteFailure(ok,
                 IF ok THEN publishNext(ps, FALSE) ELSE publishAbort(ps))]
    /\ UNCHANGED others
    /\ UNCHANGED << clock, content, startsLeft, active, everPublishing >>

(***************************************************************************)
(* POST /reschedule                                                        *)
(***************************************************************************)

\* getPendingScheduleEntries: the entries that are not terminal, each with
\* its schedule id and content id.
getPendingScheduleEntries ==
    LET ids == ascending({ e \in EntryIds :
                   Listed(e) /\ schedule[e].status \in {"Scheduled", "Publishing"} })
    IN  [ k \in 1 .. Len(ids) |->
            [scheduleId |-> ids[k], contentId |-> schedule[ids[k]].contentId] ]

\* deleteScheduleEntry: the page is gone from every query.
deleteScheduleEntry(e) == [schedule EXCEPT ![e].deleted = TRUE]

\* markContentReady: Status Ready.
markContentReady(c) == [content EXCEPT ![c].status = "Ready"]

\* The loop `for (const entry of pending)` up to its first await; after it
\* the handler runs autoScheduleReadyContent, which starts with errors = []
\* and scheduled = 0 of its own.
rescheduleFrom(ps) ==
    IF Len(ps.pending) > 0 THEN [ps EXCEPT !.pc = "rs_delete"]
    ELSE [ps EXCEPT !.pc = "sr_ready", !.outerErrors = ps.errors,
                    !.errors = << >>, !.scheduled = 0,
                    !.schedulerRuns = @ + 1]

\* catch (error) { errors.push(`Failed to reset ${entry.contentId}`) }
resetFailed(ps) ==
    rescheduleFrom([ps EXCEPT
        !.errors = Append(@, Err("reset-failed", Head(ps.pending).contentId)),
        !.pending = Tail(@)])

StartReschedule(p) ==
    /\ Free(p) /\ startsLeft > 0
    /\ startsLeft' = startsLeft - 1
    /\ pass' = [pass EXCEPT ![p] =
                  [IdlePass EXCEPT
                     !.op = "reschedule", !.pc = "rs_pending",
                     !.previous = IF pass[p].pc = "returned" THEN pass[p].op
                                  ELSE "none",
                     !.previousFailures = pass[p].failed + Len(pass[p].errors)]]
    /\ UNCHANGED others
    /\ UNCHANGED << clock, content, schedule, faults, active, everPublishing >>

\* const pending = await getPendingScheduleEntries(...): not inside a try,
\* a failure ends the request with an exception.
RS_Pending(p) ==
    /\ pass[p].pc = "rs_pending"
    /\ \E ok \in StoreOutcomes :
         /\ faults' = Spend(ok)
         /\ pass' = [pass EXCEPT ![p] = noteFailure(ok,
              IF ok
              THEN rescheduleFrom([@ EXCEPT
                       !.pendingAtQuery = nonTerminalEntries,
                       !.pending = getPendingScheduleEntries,
                       !.cleared = Len(getPendingScheduleEntries)])
              ELSE [IdlePass EXCEPT !.op = "reschedule", !.pc = "threw"])]
    /\ UNCHANGED others
    /\ UNCHANGED << clock, content, schedule, startsLeft, active, everPublishing >>

\* await deleteScheduleEntry(token, entry.scheduleId)
RS_Delete(p) ==
    /\ pass[p].pc = "rs_delete"
    /\ LET ps == pass[p]
           e  == Head(ps.pending).scheduleId
       IN \E ok \in UpdateOutcomes(e) :
            /\ faults' = SpendOn(e, ok)
            /\ schedule' = IF ok THEN deleteScheduleEntry(e) ELSE schedule
            /\ pass' = [pass EXCEPT ![p] = noteFailure(ok,
                 LET reset == [entry |-> e, item |-> Head(ps.pending).contentId,
                               entryWas |-> schedule[e].status,
                               deleted |-> ok, readied |-> FALSE]
                     ps2   == [ps EXCEPT !.resets = Append(@, reset)]
                 IN  IF ok THEN [ps2 EXCEPT !.pc = "rs_ready"]
                     ELSE resetFailed(ps2))]
    /\ UNCHANGED others
    /\ UNCHANGED << clock, content, startsLeft, active, everPublishing >>

\* await markContentReady(token, entry.contentId)
RS_MarkReady(p) ==
    /\ pass[p].pc = "rs_ready"
    /\ LET ps == pass[p]
           c  == Head(ps.pending).contentId
       IN \E ok \in StoreOutcomes :
            /\ faults' = Spend(ok)
            /\ content' = IF ok THEN markContentReady(c) ELSE content
            /\ pass' = [pass EXCEPT ![p] = noteFailure(ok,
                 IF ok THEN rescheduleFrom([ps EXCEPT !.pending = Tail(@),
                                 !.resets[Len(ps.resets)].readied = TRUE])
                 ELSE resetFailed(ps))]
    /\ UNCHANGED others
    /\ UNCHANGED << clock, schedule, startsLeft, active, everPublishing >>

(***************************************************************************)
(* processDraftedContent (the enrichment sweep)                            *)
(***************************************************************************)

\* return { processed, errors }
enrichReturn(ps) ==
    [IdlePass EXCEPT !.op = ps.op, !.pc = "returned",
                     !.processed = ps.processed, !.errors = ps.errors,
                     !.drafted = ps.drafted, !.sweep = ps.sweep,
                     !.previous = ps.previous,
                     !.previousFailures = ps.previousFailures,
                     !.failed = ps.failed]

\* The record of the item in hand.
sweepRecord(ps, thrown, settled) ==
    [ item |-> Head(ps.draftedContent), results |-> ps.results,
      statusAtPlugins |-> ps.statusAtPlugins, thrown |-> thrown,
      settled |-> settled ]

\* The head of the loop `for (const content of draftedContent)`.
enrichFrom(ps) ==
    IF Len(ps.draftedContent) = 0 THEN enrichReturn(ps)
    ELSE [ps EXCEPT !.pc = "en_processing", !.results = "none",
                    !.statusAtPlugins = "none"]

\* The item in hand is done: the next iteration.
enrichNext(ps, thrown) ==
    enrichFrom([ps EXCEPT !.sweep = Append(@, sweepRecord(ps, thrown, TRUE)),
                          !.draftedContent = Tail(@)])

\* The outer catch: errors.push(`Main process error`), then the return.
enrichAbort(ps) ==
    enrichReturn([ps EXCEPT
        !.errors = Append(@, Err("main", 0)),
        !.sweep = IF Len(ps.draftedContent) = 0 THEN @
                  ELSE Append(@, sweepRecord(ps, ps.pc = "en_failed", FALSE))])

\* A bug a reader could make: the sweep takes up again the items left in
\* Processing.
isDraftedOrProcessing(c) == content[c].status \in {"Drafted", "Processing"}

\* getDraftedContent, the filter of the query: Status equals Drafted.
isDrafted(c) == content[c].status = "Drafted"

\* getDraftedContent: the pages the query returns.
getDraftedContent == ascending({ c \in Items : isDrafted(c) })

\* app.post('/process')
StartEnrich(p) ==
    /\ Free(p) /\ startsLeft > 0
    /\ startsLeft' = startsLeft - 1
    /\ pass' = [pass EXCEPT ![p] =
                  [IdlePass EXCEPT
                     !.op = "enrich", !.pc = "en_query",
                     !.previous = IF pass[p].pc = "returned" THEN pass[p].op
                                  ELSE "none",
                     !.previousFailures = pass[p].failed + Len(pass[p].errors)]]
    /\ UNCHANGED others
    /\ UNCHANGED << clock, content, schedule, faults, active, everPublishing >>

\* const draftedContent = await getDraftedContent(...): it throws on an
\* answer that is not ok, into the outer catch.
EN_Query(p) ==
    /\ pass[p].pc = "en_query"
    /\ \E ok \in StoreOutcomes :
         /\ faults' = Spend(ok)
         /\ pass' = [pass EXCEPT ![p] = noteFailure(ok,
              IF ok
              THEN enrichFrom([@ EXCEPT !.draftedContent = getDraftedContent,
                                        !.drafted = getDraftedContent])
              ELSE enrichAbort(@))]
    /\ UNCHANGED others
    /\ UNCHANGED << clock, content, schedule, startsLeft, active, everPublishing >>

\* The inner try up to its first await: `if (await plugin.shouldRun(context))`
\* for the one registered plugin, QuotePlugin (includeQuote === true), else
\* context.log.push('quote: skipped').
pluginsFrom(ps) ==
    IF content[Head(ps.draftedContent)].includeQuote
    THEN [ps EXCEPT !.pc = "en_plugin"]
    ELSE [ps EXCEPT !.pc = "en_processed", !.results = "skipped"]

\* await markContentProcessing(content.id): outside the inner try.
EN_MarkProcessing(p) ==
    /\ pass[p].pc = "en_processing"
    /\ LET ps == pass[p]
           c  == Head(ps.draftedContent)
       IN \E ok \in StoreOutcomes :
            /\ faults' = Spend(ok)
            /\ content' = IF ok
                          THEN [content EXCEPT ![c].status = "Processing",
                                               ![c].sweeps = @ + 1]
                          ELSE content
            /\ pass' = [pass EXCEPT ![p] = noteFailure(ok,
                 IF ok THEN pluginsFrom(ps) ELSE enrichAbort(ps))]
    /\ UNCHANGED others
    /\ UNCHANGED << clock, schedule, startsLeft, active, everPublishing >>

\* const result = await plugin.process(context): QuotePlugin.process catches
\* whatever is thrown inside it and answers { success: false }.
EN_Plugin(p) ==
    /\ pass[p].pc = "en_plugin"
    /\ \E result \in {"success", "failure"} :
         pass' = [pass EXCEPT ![p] =
            [@ EXCEPT !.pc = "en_processed", !.results = result,
                      !.statusAtPlugins =
                          content[Head(pass[p].draftedContent)].status]]
    /\ UNCHANGED others
    /\ UNCHANGED << clock, content, schedule, faults, startsLeft, active,
                    everPublishing >>

\* A bug a reader could make: a plugin's { success: false } treated as a
\* thrown error, the item left in Processing.
processedPageIfSuccess(c, results) ==
    IF results = "failure" THEN content
    ELSE [content EXCEPT ![c].status = "Processed", ![c].processingLog = results,
                         ![c].matchedQuoteId = @ \/ results = "success"]

\* markContentProcessed: Status Processed, the Processing Log, and the
\* Matched Quote ID `if (results.quote?.data?.quoteId)`.
processedPage(c, results) ==
    [content EXCEPT ![c].status = "Processed", ![c].processingLog = results,
                    ![c].matchedQuoteId = @ \/ results = "success"]

\* await markContentProcessed(...); processed++; and the inner catch up to
\* its await: errors.push(`Content id: Processing failed`).
EN_MarkProcessed(p) ==
    /\ pass[p].pc = "en_processed"
    /\ LET ps == pass[p]
           c  == Head(ps.draftedContent)
       IN \E ok \in StoreOutcomes :
            /\ faults' = Spend(ok)
            /\ content' = IF ok THEN processedPage(c, ps.results) ELSE content
            /\ pass' = [pass EXCEPT ![p] = noteFailure(ok,
                 IF ok THEN enrichNext([ps EXCEPT !.processed = @ + 1], FALSE)
                 ELSE [ps EXCEPT !.pc = "en_failed",
                          !.errors = Append(@, Err("processing-failed", c))])]
    /\ UNCHANGED others
    /\ UNCHANGED << clock, schedule, startsLeft, active, everPublishing >>

\* await markContentProcessingFailed(content.id, errorMsg), inside the inner
\* catch: the Processing Log only, the status is not written.
EN_MarkProcessingFailed(p) ==
    /\ pass[p].pc = "en_failed"
    /\ LET ps == pass[p]
           c  == Head(ps.draftedContent)
       IN \E ok \in StoreOutcomes :
            /\ faults' = Spend(ok)
            /\ content' = IF ok THEN [content EXCEPT ![c].processingLog = "ERROR"]
                          ELSE content
            /\ pass' = [pass EXCEPT ![p] = noteFailure(ok,
                 IF ok THEN enrichNext(ps, TRUE) ELSE enrichAbort(ps))]
    /\ UNCHANGED others
    /\ UNCHANGED << clock, schedule, startsLeft, active, everPublishing >>

(***************************************************************************)
(* Part III: the X publisher (publishers/x.ts: getTokens, saveTokens,       *)
(* postToX, deleteFromX, refreshAccessToken).                               *)
(*                                                                         *)
(* A token pair is a generation number: 1 is the pair of the credentials   *)
(* (the Worker's secrets), 2 a pair an earlier call has saved to KV, and   *)
(* each grant of refreshAccessToken is the next number.  The access token  *)
(* and the refresh token of generation g are both written g; 0 is a KV key *)
(* without a value.  Each await of KV or of the X API is one step of a     *)
(* call; calls interleave at the awaits.  The media upload is left out: it *)
(* signs with the OAuth 1.0a keys and its failures are caught.             *)
(***************************************************************************)
XCalls == 1 .. NumXCalls

\* The pair of the credentials.
CredentialToken == 1

\* The locals of a call that has not started.
IdleCall ==
    [ fn |-> "none", pc |-> "idle",
      \* credentials.kv, credentials.accessToken, credentials.refreshToken
      kv |-> FALSE, accessToken |-> 0, refreshToken |-> 0,
      replyContent |-> FALSE,
      kvAccessTokenRead |-> 0,
      currentAccessToken |-> 0, currentRefreshToken |-> 0,
      newTokens |-> 0,
      \* history: whether the caller passed a KV namespace, and what the call
      \* has sent and written, in order
      kvConfigured |-> FALSE, log |-> << >> ]

Event(kind, token) == [kind |-> kind, token |-> token]

\* The X publisher while only the passes or the allocator are exercised.
XAtRest ==
    /\ kvAccessToken = 0 /\ kvRefreshToken = 0 /\ issued = 0
    /\ xcall = [c \in XCalls |-> IdleCall]

\* KV is empty (first deployment) or holds the pair an earlier call saved.
InitX ==
    /\ \E g \in {0, 2} : kvAccessToken = g /\ kvRefreshToken = g
    /\ issued = 2
    /\ xcall = [c \in XCalls |-> IdleCall]
    /\ StoreAtRest
    /\ SlotsAtRest

XIdle(c) == xcall[c].pc \in {"idle", "returned", "threw"}

\* A call is served by the first record that runs nothing.
XFree(c) == XIdle(c) /\ \A d \in XCalls : d < c => ~XIdle(d)

\* getTokens up to its first await: `if (credentials.kv)`.
getTokensFrom(x) ==
    IF x.kv THEN [x EXCEPT !.pc = "x_get_access"]
    ELSE [x EXCEPT !.pc = "x_request",
                   !.currentAccessToken = x.accessToken,
                   !.currentRefreshToken = x.refreshToken]

\* postToX(content, imageUrls, credentials, replyContent) and
\* deleteFromX(tweetId, credentials), as index.ts and the scripts call them.
StartXCall(c) ==
    /\ XFree(c)
    /\ xcall[c].pc = "idle"
    /\ \E fn \in {"postToX", "deleteFromX"}, kv \in BOOLEAN, reply \in BOOLEAN :
         /\ fn = "deleteFromX" => ~reply
         /\ xcall' = [xcall EXCEPT ![c] =
              getTokensFrom([IdleCall EXCEPT
                  !.fn = fn, !.kv = kv, !.kvConfigured = kv,
                  !.accessToken = CredentialToken,
                  !.refreshToken = CredentialToken,
                  !.replyContent = reply])]
    /\ UNCHANGED << kvAccessToken, kvRefreshToken, issued >>
    /\ UNCHANGED << storeVars, slotVars >>

\* const kvAccessToken = await credentials.kv.get(KV_ACCESS_TOKEN_KEY)
X_GetAccess(c) ==
    /\ xcall[c].pc = "x_get_access"
    /\ xcall' = [xcall EXCEPT ![c].pc = "x_get_refresh",
                              ![c].kvAccessTokenRead = kvAccessToken]
    /\ UNCHANGED << kvAccessToken, kvRefreshToken, issued >>
    /\ UNCHANGED << storeVars, slotVars >>

\* const kvRefreshToken = await credentials.kv.get(KV_REFRESH_TOKEN_KEY);
\* `if (kvAccessToken && kvRefreshToken)` the pair read, else the credentials'.
X_GetRefresh(c) ==
    /\ xcall[c].pc = "x_get_refresh"
    /\ LET x == xcall[c]
           both == x.kvAccessTokenRead # 0 /\ kvRefreshToken # 0
       IN xcall' = [xcall EXCEPT ![c] =
              [x EXCEPT !.pc = "x_request",
                        !.currentAccessToken =
                            IF both THEN x.kvAccessTokenRead ELSE x.accessToken,
                        !.currentRefreshToken =
                            IF both THEN kvRefreshToken ELSE x.refreshToken]]
    /\ UNCHANGED << kvAccessToken, kvRefreshToken, issued >>
    /\ UNCHANGED << storeVars, slotVars >>

\* The answers of the X API to the tweet (or delete) request: ok, 401, or
\* another error; it answers 401 only while it still grants refreshes.
RequestAnswers ==
    IF issued < 2 + MaxRefreshes THEN {"ok", "401", "error"} ELSE {"ok", "error"}

\* const response = await fetch('https://api.twitter.com/2/tweets', ...) with
\* `Bearer ${currentAccessToken}`, and the branches on response.ok and
\* response.status === 401.
X_Request(c) ==
    /\ xcall[c].pc = "x_request"
    /\ LET x == [xcall[c] EXCEPT
                   !.log = Append(@, Event("request", xcall[c].currentAccessToken))]
       IN \E answer \in RequestAnswers :
            xcall' = [xcall EXCEPT ![c] =
               IF answer = "401" THEN [x EXCEPT !.pc = "x_refresh"]
               ELSE IF answer = "error" THEN [x EXCEPT !.pc = "threw"]
               ELSE IF x.replyContent THEN [x EXCEPT !.pc = "x_reply"]
               ELSE [x EXCEPT !.pc = "returned"]]
    /\ UNCHANGED << kvAccessToken, kvRefreshToken, issued >>
    /\ UNCHANGED << storeVars, slotVars >>

\* saveTokens up to its first await (`if (kv)`), and after it the retry:
\* return postToX(..., {...credentials, accessToken, refreshToken,
\* kv: undefined}, ...), which enters getTokens again.
retryWith(x) ==
    getTokensFrom([x EXCEPT !.accessToken = x.newTokens,
                            !.refreshToken = x.newTokens,
                            !.kv = FALSE])

saveTokensFrom(x) ==
    IF x.kv THEN [x EXCEPT !.pc = "x_save_access"] ELSE retryWith(x)

\* const newTokens = await refreshAccessToken(credentials,
\* currentRefreshToken): a new pair, or it throws.
X_Refresh(c) ==
    /\ xcall[c].pc = "x_refresh"
    /\ \E ok \in BOOLEAN :
         LET x == xcall[c]
         IN /\ issued' = IF ok THEN issued + 1 ELSE issued
            /\ xcall' = [xcall EXCEPT ![c] =
                 IF ok
                 THEN saveTokensFrom([x EXCEPT
                        !.newTokens = issued + 1,
                        !.log = Append(@, Event("refresh", issued + 1))])
                 ELSE [x EXCEPT !.pc = "threw"]]
    /\ UNCHANGED << kvAccessToken, kvRefreshToken >>
    /\ UNCHANGED << storeVars, slotVars >>

\* await kv.put(KV_ACCESS_TOKEN_KEY, accessToken)
X_SaveAccess(c) ==
    /\ xcall[c].pc = "x_save_access"
    /\ kvAccessToken' = xcall[c].newTokens
    /\ xcall' = [xcall EXCEPT
                   ![c].pc = "x_save_refresh",
                   ![c].log = Append(@, Event("put_access", xcall[c].newTokens))]
    /\ UNCHANGED << kvRefreshToken, issued >>
    /\ UNCHANGED << storeVars, slotVars >>

\* await kv.put(KV_REFRESH_TOKEN_KEY, refreshToken), then the retry.
X_SaveRefresh(c) ==
    /\ xcall[c].pc = "x_save_refresh"
    /\ kvRefreshToken' = xcall[c].newTokens
    /\ xcall' = [xcall EXCEPT ![c] =
         retryWith([xcall[c] EXCEPT
             !.log = Append(@, Event("put_refresh", xcall[c].newTokens))])]
    /\ UNCHANGED << kvAccessToken, issued >>
    /\ UNCHANGED << storeVars, slotVars >>

\* The reply: fetch with `Bearer ${credentials.accessToken}`; its failure is
\* logged and the call returns the result of the main tweet.
X_Reply(c) ==
    /\ xcall[c].pc = "x_reply"
    /\ xcall' = [xcall EXCEPT
                   ![c].pc = "returned",
                   ![c].log = Append(@, Event("reply", xcall[c].accessToken))]
    /\ UNCHANGED << kvAccessToken, kvRefreshToken, issued >>
    /\ UNCHANGED << storeVars, slotVars >>

NextX ==
    \E c \in XCalls :
        \/ StartXCall(c)
        \/ X_GetAccess(c)
        \/ X_GetRefresh(c)
        \/ X_Request(c)
        \/ X_Refresh(c)
        \/ X_SaveAccess(c)
        \/ X_SaveRefresh(c)
        \/ X_Reply(c)

(***************************************************************************)
(* The clock.                                                              *)
(***************************************************************************)
Tick ==
    /\ \E t \in ClockInstants : t > clock /\ clock' = t
    /\ UNCHANGED others
    /\ UNCHANGED << content, schedule, pass, faults, startsLeft, active,
                    everPublishing >>

(***************************************************************************)
(* The passes together.                                                    *)
(***************************************************************************)
vars == << storeVars, slotVars, xVars >>

\* Any number of passes at once: the cron trigger runs its three operations
\* side by side and the HTTP triggers arrive at any time.
Init ==
    /\ InitStore
    /\ faults = MaxFaults
    /\ startsLeft = MaxStarts
    /\ active = Passes
    /\ SlotsAtRest
    /\ XAtRest

\* One pass at a time, each started after the one before it has ended.
InitSolo ==
    /\ InitStoreOf(StoreSamples \cup SoloSamples)
    /\ faults = SoloFaults
    /\ startsLeft = SoloStarts
    /\ active = {1}
    /\ SlotsAtRest
    /\ XAtRest

Next ==
    \/ Tick
    \/ \E p \in Passes :
         \/ StartSchedule(p)
         \/ SR_QueryReady(p)
         \/ SR_QuerySchedule(p)
         \/ SR_Create(p)
         \/ SR_Mark(p)
         \/ SR_Times(p)
         \/ StartPublish(p)
         \/ PD_Query(p)
         \/ PD_MarkPublishing(p)
         \/ PD_Enrich(p)
         \/ PD_PostX(p)
         \/ PD_PostLinkedIn(p)
         \/ PD_MarkPublished(p)
         \/ PD_MarkContentPublished(p)
         \/ PD_MarkAllFailed(p)
         \/ PD_MarkFailed(p)
         \/ StartReschedule(p)
         \/ RS_Pending(p)
         \/ RS_Delete(p)
         \/ RS_MarkReady(p)
         \/ StartEnrich(p)
         \/ EN_Query(p)
         \/ EN_MarkProcessing(p)
         \/ EN_Plugin(p)
         \/ EN_MarkProcessed(p)
         \/ EN_MarkProcessingFailed(p)

Spec == Init /\ [][Next]_vars

SpecSolo == InitSolo /\ [][Next]_vars

----------------------------------------------------------------------------
(***************************************************************************)
(* The allocator called on sampled inputs.                                 *)
(***************************************************************************)
\* Current instants: before the first template time, inside the first jitter
\* window, at its end, after the last entry and late at night, on each of the
\* days 0 .. NowDays - 1.
NowSamples ==
    { d * MinutesPerDay + m : d \in 0 .. NowDays - 1, m \in {300, 488, 495, 1070, 1400} }

\* Zone offsets: UTC, Asia/Jerusalem (winter time) and America/New_York
\* (winter time).
ZoneOffsets == {0, 120, -300}

\* A Cloudflare Worker runs in UTC; a local run (wrangler dev, node) runs in
\* the machine's zone, which may be the configured one.
RuntimeOffsets(tz) == {0, tz}

\* Occupied instants around the template times of day 0 and day 1.
TakenSamples ==
    { {}, {513}, {453, 770}, {1079, 1440 + 470} }

InitSlots ==
    /\ callNow \in NowSamples
    /\ callTimezone \in ZoneOffsets
    /\ callRuntime \in RuntimeOffsets(callTimezone)
    /\ callTaken \in TakenSamples
    /\ callDays \in 1 .. MaxDaysAhead
    /\ callState = "ready"
    /\ callOffsets = << >>
    /\ returned = << >>
    /\ StoreAtRest
    /\ XAtRest

\* One call of getAvailableSlots(timezone, takenTimes, daysAhead).
CallGetAvailableSlots ==
    /\ callState = "ready"
    /\ \E rnd \in [SlotPositions(callDays) -> RandomSamples] :
         /\ returned' = getAvailableSlots(callNow, callTimezone, callRuntime,
                                          callTaken, callDays, rnd)
         /\ callOffsets' = [p \in SlotPositions(callDays) |->
                               getRandomMinuteOffset(rnd[p])]
    /\ callState' = "returned"
    /\ UNCHANGED << callNow, callTimezone, callRuntime, callTaken, callDays >>
    /\ UNCHANGED << storeVars, xVars >>

NextSlots == CallGetAvailableSlots

SpecSlots == InitSlots /\ [][NextSlots]_vars

\* scheduled(event, env, ctx): Promise.all([processDraftedContent(env),
\* autoScheduleReadyContent(env), processScheduledPosts(env)]).  Each of the
\* three runs up to its first await.
cronPasses ==
    [p \in Passes |->
        IF p = 1 THEN [IdlePass EXCEPT !.op = "enrich", !.pc = "en_query"]
        ELSE IF p = 2 THEN [IdlePass EXCEPT !.op = "schedule", !.pc = "sr_ready"]
        ELSE IF p = 3 THEN [IdlePass EXCEPT !.op = "publish", !.pc = "pd_query"]
        ELSE IdlePass]

Cron ==
    /\ startsLeft > 0
    /\ \A p \in Passes : pass[p].pc = "idle"
    /\ startsLeft' = startsLeft - 1
    /\ pass' = cronPasses
    /\ UNCHANGED others
    /\ UNCHANGED << clock, content, schedule, faults, active, everPublishing >>

InitCron ==
    /\ InitStore
    /\ faults = MaxFaults
    /\ startsLeft = MaxCrons
    /\ active = Passes
    /\ SlotsAtRest
    /\ XAtRest

NextCron ==
    \/ Tick
    \/ Cron
    \/ \E p \in Passes :
         \/ SR_QueryReady(p)
         \/ SR_QuerySchedule(p)
         \/ SR_Create(p)
         \/ SR_Mark(p)
         \/ SR_Times(p)
         \/ PD_Query(p)
         \/ PD_MarkPublishing(p)
         \/ PD_Enrich(p)
         \/ PD_PostX(p)
         \/ PD_PostLinkedIn(p)
         \/ PD_MarkPublished(p)
         \/ PD_MarkContentPublished(p)
         \/ PD_MarkAllFailed(p)
         \/ PD_MarkFailed(p)
         \/ EN_Query(p)
         \/ EN_MarkProcessing(p)
         \/ EN_Plugin(p)
         \/ EN_MarkProcessed(p)
         \/ EN_MarkProcessingFailed(p)

\* One round of the cron trigger.
SpecCron == InitCron /\ [][NextCron]_vars

\* The night passes: 04:20 UTC of day 1, the four template times of that
\* day are ahead.
Dawn ==
    /\ clock < MinutesPerDay + 260
    /\ clock' = MinutesPerDay + 260
    /\ UNCHANGED others
    /\ UNCHANGED << content, schedule, pass, faults, startsLeft, active,
                    everPublishing >>

\* autoScheduleReadyContent invoked again (the cron trigger, /schedule).
ScheduleAgain(p) ==
    /\ Free(p)
    /\ pass' = [pass EXCEPT ![p] =
                  [IdlePass EXCEPT !.op = "schedule", !.pc = "sr_ready"]]
    /\ UNCHANGED others
    /\ UNCHANGED << clock, content, schedule, faults, startsLeft, active,
                    everPublishing >>

\* processScheduledPosts invoked again (the cron trigger, /publish).
PublishAgain(p) ==
    /\ Free(p)
    /\ pass' = [pass EXCEPT ![p] =
                  [IdlePass EXCEPT !.op = "publish", !.pc = "pd_query"]]
    /\ UNCHANGED others
    /\ UNCHANGED << clock, content, schedule, faults, startsLeft, active,
                    everPublishing >>

\* The step of a pass of one of the two that is under way.
PassStep(p) ==
    \/ SR_QueryReady(p)
    \/ SR_QuerySchedule(p)
    \/ SR_Create(p)
    \/ SR_Mark(p)
    \/ SR_Times(p)
    \/ PD_Query(p)
    \/ PD_MarkPublishing(p)
    \/ PD_Enrich(p)
    \/ PD_PostX(p)
    \/ PD_PostLinkedIn(p)
    \/ PD_MarkPublished(p)
    \/ PD_MarkContentPublished(p)
    \/ PD_MarkAllFailed(p)
    \/ PD_MarkFailed(p)

\* The passes that run when one runs at a time.
LivePasses == {1}

\* The two operations invoked again and again, one pass at a time, while
\* time passes and every store request succeeds.
InitLive ==
    /\ InitStoreOf(StoreSamples \cup SoloSamples)
    /\ faults = 0
    /\ startsLeft = 0
    /\ active = LivePasses
    /\ SlotsAtRest
    /\ XAtRest

NextLive ==
    \/ Tick
    \/ Dawn
    \/ \E p \in Passes :
         \/ ScheduleAgain(p)
         \/ PublishAgain(p)
         \/ PassStep(p)

\* The runtime runs every pass it has started to its end, each of the two
\* operations is invoked again and again, and the night passes.
SpecLive ==
    /\ InitLive /\ [][NextLive]_vars
    /\ WF_vars(Dawn)
    /\ \A p \in LivePasses : /\ WF_vars(PassStep(p))
                             /\ SF_vars(ScheduleAgain(p))
                             /\ SF_vars(PublishAgain(p))

\* Calls of the X publisher alone.
SpecX == InitX /\ [][NextX]_vars

----------------------------------------------------------------------------
(***************************************************************************)
(* Claims about the slot allocator (checked under SpecSlots).              *)
(***************************************************************************)

\* The minute of the day a wall clock in the configured zone shows at instant s.
minuteOfDayIn(s, tz) == (s + tz) % MinutesPerDay

\* The template times as minutes of the day.
TemplateMinutes == { OPTIMAL_SLOTS[i].hour * 60 + OPTIMAL_SLOTS[i].minute :
                       i \in 1 .. Len(OPTIMAL_SLOTS) }

\* C2: every returned instant is at least 30 minutes away from every
\* instant of takenTimes.
C2_ClearOfTaken ==
    callState = "returned" =>
        \A i \in 1 .. Len(returned) : \A o \in callTaken :
            Abs(returned[i] - o) >= 30

\* C2 witness: a call with occupied instants returned a slot exactly 30
\* minutes from one of them, and dropped a template entry of the first day.
C2_Witness ==
    /\ callState = "returned"
    /\ \E i \in 1 .. Len(returned) : \E o \in callTaken : Abs(returned[i] - o) = 30
    /\ callNow = 300 /\ callDays = 1 /\ Len(returned) < Len(OPTIMAL_SLOTS)

\* C3: every returned instant is strictly later than the instant read at
\* the start of the call.
C3_StrictlyFuture ==
    callState = "returned" =>
        \A i \in 1 .. Len(returned) : returned[i] > callNow

\* C3 witness: with nothing occupied, a call made in the middle of the day
\* returned some slots and skipped the template entries already past.
C3_Witness ==
    /\ callState = "returned"
    /\ callTaken = {}
    /\ returned # << >>
    /\ Len(returned) < callDays * Len(OPTIMAL_SLOTS)

\* C4: every returned instant, read as a wall clock in the configured zone,
\* lies 0 to 12 whole minutes after one of the template times, and the
\* jitter source returns only integers 0 .. 12.
C4_OffsetFromTemplate ==
    callState = "returned" =>
        /\ \A i \in 1 .. Len(returned) :
             \E t \in TemplateMinutes :
                minuteOfDayIn(returned[i], callTimezone) - t \in 0 .. 12
        /\ \A p \in DOMAIN callOffsets : callOffsets[p] \in 0 .. 12

----------------------------------------------------------------------------
(***************************************************************************)
(* Claims about the passes (checked under Spec and SpecSolo).              *)
(***************************************************************************)

\* The records of the entries a publish pass has dealt with.
Outcomes(p) ==
    IF pass[p].op = "publish"
    THEN { pass[p].outcomes[k] : k \in 1 .. Len(pass[p].outcomes) }
    ELSE {}

\* The errors a pass holds about schedule entry e.
errorsAbout(p, e) ==
    { k \in 1 .. Len(pass[p].errors) : pass[p].errors[k].id = e }

\* Every platform of the entry was tried.
allTried(o) == { o.calls[k] : k \in 1 .. Len(o.calls) } = o.platforms

\* One adapter of an {X, LinkedIn} entry succeeded and the other failed.
partial(o) ==
    /\ o.platforms = {"X", "LinkedIn"}
    /\ allTried(o)
    /\ Cardinality(o.postUrls) = 1

\* What C5 promises for such an entry when the pass has returned.
partialResult(p, o) ==
    /\ schedule[o.id].status = "Published"
    /\ schedule[o.id].xUrl = ("X" \in o.postUrls)
    /\ schedule[o.id].linkedInUrl = ("LinkedIn" \in o.postUrls)
    /\ content[o.contentId].status = "Published"
    /\ o.counted
    /\ pass[p].processed = Cardinality({ k \in 1 .. Len(pass[p].outcomes) :
                                           pass[p].outcomes[k].counted })
    /\ Cardinality(errorsAbout(p, o.id)) = 1
    /\ \A k \in errorsAbout(p, o.id) :
           {pass[p].errors[k].kind} = o.platforms \ o.postUrls

\* C1: in every reachable state, under any interleaving of
\* autoScheduleReadyContent, processScheduledPosts and /reschedule passes,
\* each content item is referenced by at most one schedule entry in status
\* Scheduled or Publishing.
C1_AtMostOneNonTerminalEntry ==
    \A c \in Items : Cardinality(nonTerminalEntriesOf(c)) <= 1

allFailed(o) == o.dispatched /\ allTried(o) /\ o.postUrls = {}

\* What C6 promises for such an entry when the pass has returned.
allFailedResult(p, o) ==
    /\ schedule[o.id].status = "Failed"
    /\ schedule[o.id].error # ""
    /\ ~o.counted
    /\ content[o.contentId].status = "Published" =>
           \E o2 \in Outcomes(p) :
               o2.id # o.id /\ o2.contentId = o.contentId /\ o2.counted

eachOnce(platforms, calls) ==
    /\ \A k \in 1 .. Len(calls) : calls[k] \in platforms
    /\ \A pl \in platforms :
           Cardinality({ k \in 1 .. Len(calls) : calls[k] = pl }) = 1

\* C7: for every entry of a publish pass that reaches the dispatch, the pass
\* invokes the adapter of each platform in the entry's platform set exactly
\* once, whatever the other adapter returned or threw.
C7_EachPlatformOnce ==
    \A p \in Passes :
        /\ \A o \in Outcomes(p) :
               o.dispatched => eachOnce(o.platforms, o.calls)
        /\ ( /\ pass[p].dispatched
             /\ pass[p].pc \in {"pd_published", "pd_content", "pd_allfailed",
                                "pd_catch"} )
           => eachOnce(Head(pass[p].scheduledPosts).platforms, pass[p].calls)

C7_Witness ==
    \E p \in Passes : \E o \in Outcomes(p) :
        /\ o.dispatched
        /\ o.platforms = {"X", "LinkedIn"}
        /\ o.calls = << "X", "LinkedIn" >>
        /\ o.postUrls = {"LinkedIn"}

\* C8: once a schedule entry is Published or Failed no step changes its
\* status, and once a content item is Published no step changes its status.
C8_TerminalNeverLeft ==
    [][ /\ \A e \in EntryIds :
             schedule[e].status \in {"Published", "Failed"}
                 => schedule'[e].status = schedule[e].status
        /\ \A c \in Items :
             content[c].status = "Published" => content'[c].status = "Published"
      ]_vars

\* C9: a status is written only over the status the transition expects: an
\* entry becomes Publishing only from Scheduled and Published or Failed only
\* from Publishing, an item becomes Scheduled only from Ready and Published
\* only from Scheduled; otherwise the stored status stays as it is.
C9_TransitionsGuarded ==
    [][ /\ \A e \in EntryIds :
             schedule'[e].status # schedule[e].status =>
                 \/ /\ schedule'[e].status = "Publishing"
                    /\ schedule[e].status = "Scheduled"
                 \/ /\ schedule'[e].status \in {"Published", "Failed"}
                    /\ schedule[e].status = "Publishing"
        /\ \A c \in Items :
             /\ ( content'[c].status = "Scheduled" /\ content[c].status # "Scheduled" )
                    => content[c].status = "Ready"
             /\ ( content'[c].status = "Published" /\ content[c].status # "Published" )
                    => content[c].status = "Scheduled"
      ]_vars

\* C10: a publish pass has written Publishing to an entry before it invokes
\* an adapter for it, and no entry that was written Publishing before the
\* pass's due query is in the list the query returned, so the pass invokes
\* no adapter for it.
C10_PublishingNotRepicked ==
    \A p \in Passes : pass[p].op = "publish" =>
        /\ ( pass[p].pc \in {"pd_x", "pd_li"} \/ pass[p].calls # << >> )
               => /\ pass[p].marked
                  /\ Head(pass[p].scheduledPosts).id \in everPublishing
        /\ \A k \in 1 .. Len(pass[p].scheduledPosts) :
               pass[p].scheduledPosts[k].id \notin pass[p].staleAtQuery
        /\ \A o \in Outcomes(p) : o.id \notin pass[p].staleAtQuery

C10_Witness ==
    \E p, q \in Passes :
        /\ p # q
        /\ pass[q].op = "publish" /\ pass[q].pc \in {"pd_x", "pd_li"}
        /\ pass[p].op = "publish" /\ pass[p].pc = "returned"
        /\ LET e == Head(pass[q].scheduledPosts).id
           IN  /\ e \in pass[p].staleAtQuery
               /\ schedule[e].status = "Publishing"
               /\ schedule[e].scheduledFor <= clock
               /\ pass[p].outcomes = << >>

\* The ids of the entries a publish pass has dealt with, in order.
doneIds(p) == [k \in 1 .. Len(pass[p].outcomes) |-> pass[p].outcomes[k].id]

\* The ids of the entries a publish pass still holds, the one in hand first.
restIds(p) ==
    [k \in 1 .. Len(pass[p].scheduledPosts) |-> pass[p].scheduledPosts[k].id]

\* C11: a publish pass handles only entries that were Scheduled and due at
\* its query, in ascending order of scheduled instant, one after the other:
\* the entries dealt with and the one in hand are the front of the list, and
\* no step has been taken for an entry behind the one in hand.
C11_DueInOrder ==
    \A p \in Passes : pass[p].op = "publish" =>
        LET listed == pass[p].listed
        IN  /\ Range(listed) \subseteq pass[p].dueAtQuery
            /\ \A j, k \in 1 .. Len(listed) :
                   j < k => schedule[listed[j]].scheduledFor
                              <= schedule[listed[k]].scheduledFor
            /\ IF pass[p].pc = "returned"
               THEN doneIds(p) = SubSeq(listed, 1, Len(doneIds(p)))
               ELSE doneIds(p) \o restIds(p) = listed
            /\ \A k \in 2 .. Len(restIds(p)) :
                   /\ schedule[restIds(p)[k]].status = "Scheduled"
                   /\ ~schedule[restIds(p)[k]].xUrl
                   /\ ~schedule[restIds(p)[k]].linkedInUrl

C11_Witness ==
    \E p \in Passes :
        /\ pass[p].op = "publish" /\ pass[p].pc \in {"pd_x", "pd_li"}
        /\ Len(pass[p].listed) = 2 /\ Len(pass[p].outcomes) = 1
        /\ pass[p].listed[1] > pass[p].listed[2]
        /\ schedule[pass[p].listed[1]].scheduledFor
             < schedule[pass[p].listed[2]].scheduledFor
        /\ schedule[pass[p].listed[1]].status \in {"Published", "Failed"}

\* C12: when a publish pass has returned, every entry that was Scheduled and
\* due at its query and whose content item could not be resolved is Failed
\* with an error text, and the returned error list holds an error about it.
C12_UnresolvedMarkedFailed ==
    \A p \in Passes : (pass[p].op = "publish" /\ pass[p].pc = "returned") =>
        \A e \in pass[p].unresolved :
            /\ schedule[e].status = "Failed"
            /\ schedule[e].error # ""
            /\ errorsAbout(p, e) # {}

\* C13: when a publish pass has returned, every entry its query returned has
\* been handled, whatever failed for another entry, and a store write that
\* failed for an entry has left an entry in the returned error list.
C13_BatchNotAborted ==
    \A p \in Passes : (pass[p].op = "publish" /\ pass[p].pc = "returned") =>
        /\ \A k \in 1 .. Len(pass[p].listed) :
               \E o \in Outcomes(p) : o.id = pass[p].listed[k]
        /\ \A o \in Outcomes(p) : o.writeFailed => pass[p].errors # << >>

\* The passes that run autoScheduleReadyContent, on their own or at the end
\* of /reschedule.
SchedulePasses == { p \in Passes : pass[p].op \in {"schedule", "reschedule"} }

\* The calls of createScheduleEntry a pass made for item c.
callsFor(p, c) == { k \in 1 .. Len(pass[p].made) : pass[p].made[k].item = c }

\* The errors of a kind a pass holds about an id.
errorsOfKind(p, kind, id) ==
    { k \in 1 .. Len(pass[p].errors) :
        pass[p].errors[k].kind = kind /\ pass[p].errors[k].id = id }

\* The input items of a pass without the immediate flag, in input order.
regularInput(p) ==
    SelectSeq(pass[p].input, LAMBDA c : ~content[c].immediateSchedule)

\* C14: a pass of any operation ends by returning its result, no exception
\* escapes it, and when a store request of the pass failed the returned
\* error list is not empty.
C14_AlwaysStructuredResult ==
    \A p \in Passes :
        /\ pass[p].pc # "threw"
        /\ (pass[p].pc = "returned" /\ pass[p].failed > 0)
               => pass[p].errors # << >>

\* C15: a schedule pass calls createScheduleEntry (and then
\* markContentScheduled) only for items that were Ready and referenced by no
\* entry in status Scheduled or Publishing at its query.
C15_OnlyUnscheduledReadyTouched ==
    \A p \in SchedulePasses :
        \A k \in 1 .. Len(pass[p].made) :
            pass[p].made[k].item \in pass[p].eligible

\* The position of item c among the input items without the immediate flag
\* (0 when it is not one of them).
regularIndex(p, c) ==
    LET at == { i \in 1 .. Len(regularInput(p)) : regularInput(p)[i] = c }
    IN  IF at = {} THEN 0 ELSE CHOOSE i \in at : TRUE

\* A pass of autoScheduleReadyContent that has returned.
scheduleDone(p) == pass[p].op = "schedule" /\ pass[p].pc = "returned"

\* C16: when a schedule pass without store failures has returned, every
\* input item has exactly one entry made by the pass and is Scheduled; the
\* entry of an immediate item carries the instant current at its creation
\* (and is due), the entry of the i-th item without the flag carries the
\* i-th of the available slots, which are in ascending order, one per item.
C16_ImmediateNowRegularBySlot ==
    \A p \in Passes : (scheduleDone(p) /\ pass[p].failed = 0) =>
        /\ \A j, k \in 1 .. Len(pass[p].availableSlots) :
               j < k => pass[p].availableSlots[j] < pass[p].availableSlots[k]
        /\ \A c \in Range(pass[p].input) :
               (content[c].immediateSchedule
                   \/ regularIndex(p, c) <= pass[p].slotCount) =>
               /\ Cardinality(callsFor(p, c)) = 1
               /\ \A k \in callsFor(p, c) :
                    LET call == pass[p].made[k]
                    IN  /\ call.entry # 0
                        /\ schedule[call.entry].contentId = c
                        /\ content[c].status = "Scheduled"
                        /\ IF content[c].immediateSchedule
                           THEN /\ schedule[call.entry].scheduledFor = call.at
                                /\ schedule[call.entry].scheduledFor <= clock
                           ELSE schedule[call.entry].scheduledFor =
                                  pass[p].availableSlots[regularIndex(p, c)]

C16_Witness ==
    \E p \in Passes :
        /\ scheduleDone(p) /\ pass[p].failed = 0
        /\ Len(regularInput(p)) = 2 /\ Len(pass[p].made) = 2
        /\ schedule[pass[p].made[1].entry].scheduledFor
             < schedule[pass[p].made[2].entry].scheduledFor

\* C17: when a schedule pass has returned, every input item without the
\* immediate flag beyond the number of available slots has its own error in
\* the returned list, no entry was created for it and it is still Ready,
\* while createScheduleEntry was called for every item within the slots.
C17_ExcessItemsReported ==
    \A p \in Passes : scheduleDone(p) =>
        \A i \in 1 .. Len(regularInput(p)) :
            LET c == regularInput(p)[i]
            IN  IF i > pass[p].slotCount
                THEN /\ Cardinality(errorsOfKind(p, "no-more-slots", c)) = 1
                     /\ callsFor(p, c) = {}
                     /\ content[c].status = "Ready"
                ELSE /\ errorsOfKind(p, "no-more-slots", c) = {}
                     /\ Cardinality(callsFor(p, c)) = 1

C17_Witness ==
    \E p \in Passes :
        /\ scheduleDone(p)
        /\ Len(regularInput(p)) = 2 /\ pass[p].slotCount = 1
        /\ content[regularInput(p)[1]].status = "Scheduled"
        /\ content[regularInput(p)[2]].status = "Ready"
        /\ Len(pass[p].errors) = 1

\* The call of createScheduleEntry, or the markContentScheduled after it,
\* failed.
callFailed(call) == call.entry = 0 \/ ~call.advanced

\* C18: when a schedule pass has returned, createScheduleEntry was called
\* once for every input item that had a slot, whatever failed for the items
\* before it, and an item has one error in the returned list exactly when
\* its entry could not be created or its status could not be advanced.
C18_ItemFailureContained ==
    \A p \in Passes : scheduleDone(p) =>
        \A c \in Range(pass[p].input) :
            /\ (content[c].immediateSchedule
                    \/ regularIndex(p, c) <= pass[p].slotCount)
                   => Cardinality(callsFor(p, c)) = 1
            /\ \A k \in callsFor(p, c) :
                   Cardinality(errorsOfKind(p, "schedule-failed", c))
                     = IF callFailed(pass[p].made[k]) THEN 1 ELSE 0

C18_Witness ==
    \E p \in Passes :
        /\ scheduleDone(p)
        /\ Len(pass[p].made) = 2
        /\ callFailed(pass[p].made[1])
        /\ ~callFailed(pass[p].made[2])
        /\ Len(pass[p].errors) = 1

\* C19: every entry a schedule pass has created references the item it was
\* created for, carries that item's include-quote flag, has the item's
\* platform set, or {X, LinkedIn} when that set is empty, and is in status
\* Scheduled when createScheduleEntry has returned.
C19_EntryInheritsFromItem ==
    \A p \in SchedulePasses :
        /\ \A k \in 1 .. Len(pass[p].made) :
             LET call == pass[p].made[k]
             IN  call.entry # 0 =>
                   /\ schedule[call.entry].contentId = call.item
                   /\ schedule[call.entry].includeQuote
                        = content[call.item].includeQuote
                   /\ schedule[call.entry].platforms
                        = IF content[call.item].platforms = {}
                          THEN {"X", "LinkedIn"}
                          ELSE content[call.item].platforms
        /\ pass[p].pc = "sr_mark" =>
             schedule[pass[p].made[Len(pass[p].made)].entry].status = "Scheduled"

C19_Witness ==
    \E p \in SchedulePasses : \E k \in 1 .. Len(pass[p].made) :
        /\ pass[p].made[k].entry # 0
        /\ content[pass[p].made[k].item].platforms = {}
        /\ schedule[pass[p].made[k].entry].platforms = {"X", "LinkedIn"}
        /\ pass[p].pc = "sr_mark"

\* C20: a /reschedule pass deals with every entry that was Scheduled or
\* Publishing at its query, deleting it and setting its content item to
\* Ready, and with no other entry; it calls autoScheduleReadyContent once,
\* after the last of them; and no entry is Published or Failed when the
\* pass deletes it.
C20_PendingResetThenScheduled ==
    \A p \in Passes : pass[p].op = "reschedule" =>
        /\ pass[p].schedulerRuns <= 1
        /\ pass[p].pc = "returned" => pass[p].schedulerRuns = 1
        /\ pass[p].pc \in {"rs_pending", "rs_delete", "rs_ready"}
               => pass[p].schedulerRuns = 0
        /\ pass[p].schedulerRuns = 1 =>
               \A e \in pass[p].pendingAtQuery :
                   /\ schedule[e].deleted
                   /\ \E k \in 1 .. Len(pass[p].resets) :
                          /\ pass[p].resets[k].entry = e
                          /\ pass[p].resets[k].deleted
                          /\ pass[p].resets[k].readied
        /\ \A k \in 1 .. Len(pass[p].resets) :
               /\ pass[p].resets[k].entry \in pass[p].pendingAtQuery
               /\ pass[p].resets[k].entryWas \notin {"Published", "Failed"}

\* The instant the loop of getAvailableSlots built at position pos.
builtAt(pos) ==
    utcSlotOf(callNow, callTimezone, callRuntime, pos[1], OPTIMAL_SLOTS[pos[2]],
              callOffsets[pos])

\* C27: the returned instants are in strictly increasing order, so none is
\* returned twice.
C27_StrictlyIncreasing ==
    callState = "returned" =>
        \A i \in 1 .. Len(returned) - 1 : returned[i] < returned[i + 1]

\* C27 witness: a call over two days returned slots of both days.
C27_Witness ==
    /\ callState = "returned"
    /\ callDays = 2
    /\ Len(returned) > Len(OPTIMAL_SLOTS)

\* C28: with nothing occupied and a wall clock of the configured zone that
\* shows a time before the first template time, the call returns four slots
\* for each day of the lookahead; and a position of the loop is missing from
\* the result only if its instant is not in the future or is within 30
\* minutes of an occupied instant.
C28_FourSlotsPerDay ==
    callState = "returned" =>
        /\ (/\ callTaken = {}
            /\ \A t \in TemplateMinutes :
                   minuteOfDayIn(callNow, callTimezone) < t)
               => Len(returned) = Len(OPTIMAL_SLOTS) * callDays
        /\ \A pos \in SlotPositions(callDays) :
               \/ \E i \in 1 .. Len(returned) : returned[i] = builtAt(pos)
               \/ builtAt(pos) <= callNow
               \/ \E o \in callTaken : Abs(o - builtAt(pos)) < 30

\* C29: a publish pass runs the quote matching for an entry only if the
\* entry asks for a quote and its content item carries no matched quote id,
\* and then once.
C29_EnrichmentOnlyWhenUnmatched ==
    \A p \in Passes :
        /\ \A o \in Outcomes(p) :
               /\ o.enrichCalls <= 1
               /\ o.enrichCalls > 0 =>
                      /\ schedule[o.id].includeQuote
                      /\ ~content[o.contentId].matchedQuoteId
        /\ (pass[p].op = "publish" /\ pass[p].enrichCalls > 0
                /\ pass[p].scheduledPosts # << >>)
               => /\ pass[p].enrichCalls <= 1
                  /\ schedule[Head(pass[p].scheduledPosts).id].includeQuote
                  /\ ~content[Head(pass[p].scheduledPosts).contentId].matchedQuoteId

\* C29 witness: an entry that asks for a quote and whose item has a matched
\* quote id went to its platform without the matching being run, and
\* another pass ran the matching for an entry whose item has none.
C29_Witness ==
    \E p \in Passes : \E o \in Outcomes(p) :
        /\ schedule[o.id].includeQuote
        /\ content[o.contentId].matchedQuoteId
        /\ o.dispatched
        /\ o.calls # << >>
        /\ o.enrichCalls = 0

\* C22: no step changes the scheduled instant, the content reference or the
\* platform set of an entry that exists, and no step brings a deleted entry
\* back; an item gets another instant only through another entry.
C22_EntryAttributesFrozen ==
    [][ \A e \in EntryIds :
          /\ e \in 1 .. Len(schedule')
          /\ schedule'[e].scheduledFor = schedule[e].scheduledFor
          /\ schedule'[e].contentId = schedule[e].contentId
          /\ schedule'[e].platforms = schedule[e].platforms
          /\ schedule[e].deleted => schedule'[e].deleted
      ]_vars

\* C22 witness: one entry was published where it stood, and /reschedule
\* deleted another and the scheduler made a new one for the same item at
\* another instant.
C22_Witness ==
    /\ \E e \in EntryIds : schedule[e].status = "Published"
    /\ \E e, f \in EntryIds :
          /\ schedule[e].deleted /\ ~schedule[f].deleted
          /\ schedule[f].contentId = schedule[e].contentId
          /\ schedule[f].scheduledFor # schedule[e].scheduledFor

\* C21: a /reschedule request that arrives when the last thing that ran was
\* another /reschedule request, which met no failure, creates no entry
\* (checked where one pass runs at a time, so that nothing ran in between).
C21_SecondRescheduleCreatesNothing ==
    \A p \in Passes :
        (/\ pass[p].op = "reschedule"
         /\ pass[p].previous = "reschedule"
         /\ pass[p].previousFailures = 0
         /\ pass[p].failed = 0)
            => /\ pass[p].made = << >>
               /\ pass[p].scheduled = 0

\* The items whose status a pass has written, and the entries whose status
\* it has written (creating an entry writes its status).
itemsWrittenBy(p) ==
    IF pass[p].op = "enrich"
    THEN { r.item : r \in { pass[p].sweep[k] : k \in 1 .. Len(pass[p].sweep) } }
         \cup (IF pass[p].pc \in {"en_plugin", "en_processed", "en_failed"}
               THEN {Head(pass[p].draftedContent)} ELSE {})
    ELSE IF pass[p].op = "schedule"
    THEN { pass[p].made[k].item :
             k \in { j \in 1 .. Len(pass[p].made) : pass[p].made[j].advanced } }
    ELSE IF pass[p].op = "publish"
    THEN { o.contentId : o \in { x \in Outcomes(p) : x.counted } }
    ELSE {}

entriesWrittenBy(p) ==
    IF pass[p].op = "schedule"
    THEN { pass[p].made[k].entry : k \in 1 .. Len(pass[p].made) } \ {0}
    ELSE IF pass[p].op = "publish"
    THEN { o.id : o \in { x \in Outcomes(p) : x.dispatched } }
         \cup (IF pass[p].marked THEN {Head(pass[p].scheduledPosts).id} ELSE {})
    ELSE {}

\* C25: in a round of the cron trigger, which runs processDraftedContent,
\* autoScheduleReadyContent and processScheduledPosts side by side, no item
\* and no entry has its status written by two of the three.
C25_DisjointWriteSets ==
    \A p, q \in Passes : p # q =>
        /\ itemsWrittenBy(p) \cap itemsWrittenBy(q) = {}
        /\ entriesWrittenBy(p) \cap entriesWrittenBy(q) = {}

\* C26: the plugins run on an item while its stored status is Processing;
\* an item whose processing failed (the Processing Log holds the error) is
\* in status Processing; no step takes an item out of Processing other than
\* to Processed; and Processing is written to an item at most once, so no
\* later sweep takes it up again.
C26_ProcessingNeverReverted ==
    [][ /\ \A p \in Passes : pass'[p].op = "enrich" =>
             /\ \A k \in 1 .. Len(pass'[p].sweep) :
                    pass'[p].sweep[k].results \in {"success", "failure"}
                        => pass'[p].sweep[k].statusAtPlugins = "Processing"
             /\ pass'[p].pc = "returned" =>
                    \A k \in 1 .. Len(pass'[p].sweep) :
                        pass'[p].sweep[k].thrown
                            => content'[pass'[p].sweep[k].item].status = "Processing"
        /\ \A c \in Items :
             /\ content'[c].processingLog = "ERROR"
                    => content'[c].status = "Processing"
             /\ content[c].status = "Processing"
                    => content'[c].status \in {"Processing", "Processed"}
             /\ content'[c].sweeps <= 1
      ]_vars

\* C26 witness: a sweep failed on an item and left it in Processing with
\* the error in its log, and the sweep that ran next has returned without
\* the item in its list.
C26_Witness ==
    \E p \in Passes : \E c \in Items :
        /\ pass[p].op = "enrich" /\ pass[p].pc = "returned"
        /\ pass[p].previous = "enrich"
        /\ pass[p].failed = 0
        /\ content[c].status = "Processing"
        /\ content[c].processingLog = "ERROR"
        /\ content[c].sweeps = 1
        /\ c \notin Range(pass[p].drafted)

----------------------------------------------------------------------------
(***************************************************************************)
(* Claims about the X publisher (checked under SpecX).                     *)
(***************************************************************************)

\* The positions of a call's history that hold an event of one kind.
eventsOf(c, kind) ==
    { k \in 1 .. Len(xcall[c].log) : xcall[c].log[k].kind = kind }

\* The position of the first tweet request after position k, or 0.
retryAfter(c, k) ==
    LET later == { j \in eventsOf(c, "request") : j > k }
    IN  IF later = {} THEN 0 ELSE CHOOSE j \in later : \A i \in later : j <= i

\* C23: one call of postToX refreshes the tokens at most once and sends at
\* most two tweet requests.
C23_OneRefreshOneRetry ==
    \A c \in XCalls : xcall[c].fn = "postToX" =>
        /\ Cardinality(eventsOf(c, "refresh")) <= 1
        /\ Cardinality(eventsOf(c, "request")) <= 2

\* C24: in a call of postToX that was given a KV namespace, between a
\* token refresh and the tweet request that follows it the call has written
\* the new access token and the new refresh token to KV, and that request
\* carries the new access token.
C24_SavedBeforeRetry ==
    \A c \in XCalls : (xcall[c].fn = "postToX" /\ xcall[c].kvConfigured) =>
        \A k \in eventsOf(c, "refresh") :
            LET j == retryAfter(c, k)
                n == xcall[c].log[k].token
            IN  j # 0 =>
                  /\ xcall[c].log[j].token = n
                  /\ \E a \in eventsOf(c, "put_access") :
                        k < a /\ a < j /\ xcall[c].log[a].token = n
                  /\ \E b \in eventsOf(c, "put_refresh") :
                        k < b /\ b < j /\ xcall[c].log[b].token = n

----------------------------------------------------------------------------
(***************************************************************************)
(* Claims about repeated invocation (checked under SpecLive).              *)
(***************************************************************************)

\* Item c is Ready and no Scheduled or Publishing entry references it.
readyUnscheduled(c) ==
    content[c].status = "Ready" /\ nonTerminalEntriesOf(c) = {}

\* C30: while store requests succeed, an item that is Ready with no
\* Scheduled or Publishing entry is eventually in status Scheduled with an
\* entry that references it.
C30_ReadyEventuallyScheduled ==
    \A c \in Items :
        readyUnscheduled(c)
            ~> (/\ content[c].status = "Scheduled"
                /\ \E e \in EntryIds : Listed(e) /\ schedule[e].contentId = c)

\* C30 witness: a pass that ran late in day 0 had one slot for two items
\* and left the second Ready with an error; the item has its entry at a
\* slot of day 1 and is Scheduled.
C30_Witness ==
    \E c, d \in Items : \E e, f \in EntryIds :
        /\ c # d
        /\ schedule[e].contentId = c /\ schedule[e].scheduledFor < MinutesPerDay
        /\ schedule[e].scheduledFor > 1000
        /\ schedule[f].contentId = d /\ schedule[f].scheduledFor > MinutesPerDay
        /\ content[d].status = "Scheduled"
        /\ ~content[c].immediateSchedule /\ ~content[d].immediateSchedule

----------------------------------------------------------------------------
(***************************************************************************)
(* Further claims about the passes over the store.                         *)
(***************************************************************************)

\* C31: a due entry whose stored platform set is empty, once a publishing
\* pass has dispatched it, has had both adapters invoked.
C31_EmptyPlatformsToBoth ==
    \A p \in Passes : \A k \in 1 .. Len(pass[p].outcomes) :
        LET o == pass[p].outcomes[k]
        IN  (schedule[o.id].platforms = {} /\ o.dispatched)
                => { o.calls[j] : j \in 1 .. Len(o.calls) } = Platforms

\* C32: the thread reply of a postToX call is sent with the access token
\* that posted the main tweet (the request just before it in the call).
C32_ReplyWithTweetToken ==
    \A c \in XCalls : \A k \in 1 .. Len(xcall[c].log) :
        xcall[c].log[k].kind = "reply"
            => /\ k > 1
               /\ xcall[c].log[k - 1].kind = "request"
               /\ xcall[c].log[k].token = xcall[c].log[k - 1].token

\* C33: when a publishing pass has returned, every entry it marked
\* Publishing is Published or Failed.
C33_NoneLeftPublishing ==
    \A p \in Passes :
        (pass[p].op = "publish" /\ pass[p].pc = "returned")
            => \A k \in 1 .. Len(pass[p].outcomes) :
                 pass[p].outcomes[k].marked
                    => schedule[pass[p].outcomes[k].id].status
                           \in {"Published", "Failed"}

\* C34: from the moment an entry is Failed, no step changes the status of
\* its content item, creates a new entry for that item, takes the entry in
\* hand for a dispatch, or moves it out of Failed.
C34_FailedNeverRetried ==
    [][\A e \in EntryIds :
          schedule[e].status = "Failed"
             => /\ schedule'[e].status = "Failed"
                /\ content'[schedule[e].contentId].status
                      = content[schedule[e].contentId].status
                /\ \A f \in (Len(schedule) + 1) .. Len(schedule') :
                      schedule'[f].contentId # schedule[e].contentId
                /\ \A p \in Passes :
                      pass'[p].pc \in {"pd_publishing", "pd_x", "pd_li"}
                         => Head(pass'[p].scheduledPosts).id # e]_vars

\* C35: an entry that a scheduling pass creates for a non-immediate item
\* lies at least 30 minutes away from every entry that is in status
\* Scheduled when it is created.
C35_SlotsKeptApart ==
    [][\A p \in Passes :
          (pass[p].pc = "sr_create" /\ pass[p].phase = "regular"
             /\ Len(schedule') = Len(schedule) + 1
             /\ pass'[p] # pass[p])
             => \A e \in EntryIds :
                  (Listed(e) /\ schedule[e].status = "Scheduled")
                     => Abs(schedule'[Len(schedule')].scheduledFor
                              - schedule[e].scheduledFor) >= 30]_vars

\* C36: the count a scheduling pass returns is the number of items it
\* advanced to Scheduled and also the number of entries it created.
C36_ScheduledCountExact ==
    \A p \in Passes : scheduleDone(p) =>
        /\ pass[p].scheduled
              = Cardinality({ k \in 1 .. Len(pass[p].made) :
                                pass[p].made[k].advanced })
        /\ pass[p].scheduled
              = Cardinality({ k \in 1 .. Len(pass[p].made) :
                                pass[p].made[k].entry # 0 })

\* C37: when /reschedule has returned, its cleared count is the number of
\* entries it deleted, and no item of an entry it had listed is Scheduled
\* without an entry in status Scheduled or Publishing.
C37_ClearedCountExact ==
    \A p \in Passes :
        (pass[p].op = "reschedule" /\ pass[p].pc = "returned")
            => /\ pass[p].cleared
                     = Cardinality({ k \in 1 .. Len(pass[p].resets) :
                                       pass[p].resets[k].deleted })
               /\ \A k \in 1 .. Len(pass[p].resets) :
                     content[pass[p].resets[k].item].status = "Scheduled"
                        => nonTerminalEntriesOf(pass[p].resets[k].item) # {}

\* C38: the access token and the refresh token that getTokens has returned
\* to a call belong to one generation: the pair one call saved, or the pair
\* of the credentials.
C38_NoMixedPair ==
    \A c \in XCalls :
        xcall[c].pc \notin {"idle", "x_get_access", "x_get_refresh"}
            => xcall[c].currentAccessToken = xcall[c].currentRefreshToken

\* C39: when an enrichment sweep has returned, an item whose plugin
\* answered success = false without anything thrown is Processed with the
\* failure in its Processing Log; the returned count is the number of items
\* dealt with without a throw; and an item of the sweep that is still in
\* Processing met a thrown error.
C39_PluginFailureStillProcessed ==
    \A p \in Passes :
        (pass[p].op = "enrich" /\ pass[p].pc = "returned")
            => /\ \A k \in 1 .. Len(pass[p].sweep) :
                     LET r == pass[p].sweep[k]
                     IN  /\ (r.results = "failure" /\ r.settled /\ ~r.thrown)
                               => /\ content[r.item].status = "Processed"
                                  /\ content[r.item].processingLog = "failure"
                         /\ content[r.item].status = "Processing"
                               => (r.thrown \/ ~r.settled)
               /\ pass[p].processed
                     = Cardinality({ k \in 1 .. Len(pass[p].sweep) :
                                       /\ pass[p].sweep[k].settled
                                       /\ ~pass[p].sweep[k].thrown })

\* C39 witness: a sweep has returned with count 1 after the quote plugin
\* answered success = false for its item, which is Processed.
C39_Witness ==
    \E p \in Passes : \E k \in 1 .. Len(pass[p].sweep) :
        /\ pass[p].op = "enrich" /\ pass[p].pc = "returned"
        /\ pass[p].sweep[k].results = "failure"
        /\ ~pass[p].sweep[k].thrown
        /\ pass[p].processed = 1
        /\ pass[p].errors = << >>
        /\ content[pass[p].sweep[k].item].status = "Processed"
        /\ content[pass[p].sweep[k].item].processingLog = "failure"
        /\ ~content[pass[p].sweep[k].item].matchedQuoteId

====
